---------------------------- MODULE Spec2Model ----------------------------
(***************************************************************************)
(* A model of the tool-calling conversation loop of cli-agent.             *)
(*                                                                         *)
(* Two programs of the repository are modelled:                            *)
(*   - the terminal chat (tui/chat.go, first revision, with the agent of   *)
(*     unnamed/part_003 and the registry of unnamed/part_001): Spec;       *)
(*   - the line-oriented loop Agent.Run (main.go first revision and        *)
(*     agent/agent.go first revision): SpecCli.                            *)
(* SpecFull is the terminal chat with an answer longer than the channel    *)
(* buffers; SpecEdit is the edit tool, tools.EditFile of unnamed/part_002, *)
(* called on a file; SpecList is tools.ListFiles called on a directory and *)
(* SpecRead tools.ReadFile called on a file.                               *)
(*                                                                         *)
(* Go semantics the chat model keeps:                                      *)
(*   - model.Update has a VALUE receiver: every call works on a copy of    *)
(*     the model the bubbletea runtime holds, and the runtime keeps what   *)
(*     the call returns.  model.Run has a pointer receiver: it and the     *)
(*     goroutine it starts work on the Update call's own (escaped) copy.   *)
(*   - `return m, m.Run(...)` (chat.go:326): the language leaves open      *)
(*     whether m is copied into the returned interface before or after     *)
(*     the call; callFirst is that choice of the build.                    *)
(*   - a slice is a (backing array, len, cap) header; copies of a header   *)
(*     share the array, append writes in place while len < cap.            *)
(* Strings are sequences of tokens, concatenation is \o.                   *)
(***************************************************************************)
EXTENDS Naturals, Integers, Sequences, FiniteSets, Bags, TLC

VARIABLES
    callFirst,      \* build: chat.go:326 evaluates m.Run(...) before copying m
    held,           \* the tui model value the bubbletea runtime holds
    upd,            \* the Update call in progress (KeyEnter between Run and return)
    heap,           \* backing arrays of the conversation slices
    loc,            \* per submission: the Update-local model the goroutine works on
    g,              \* per submission: the goroutine started by Run
    chans,          \* per submission: the channel made by Run
    waiting,        \* bag: waitForStreamingText commands that have not returned
    nsubs,          \* submissions so far
    hist,           \* per submission: record of what the loop did (history)
    cli,            \* the line-oriented loop Agent.Run
    ed,             \* the edit tool: the file, the call of tools.EditFile, its result
    ls,             \* the list tool: the directory, the call of tools.ListFiles, its result
    rf              \* the read tool: the file, the call of tools.ReadFile, its result

vars ==
    <<callFirst, held, upd, heap, loc, g, chans, waiting, nsubs, hist, cli, ed, ls, rf>>

-----------------------------------------------------------------------------
(* Bounds of the model *)

MaxSubs == 2
MaxCalls == 3

\* text deltas of the long answer (SpecFull): more than the channel buffers
LongDeltas == 102

\* make(chan string, 100)
ChanCap == 100

Subs == 1..MaxSubs

-----------------------------------------------------------------------------
(* Content blocks, turns, slices *)

TextBlock(text) == [type |-> "text", text |-> text]

ToolUseBlock(id, name, input) ==
    [type |-> "tool_use", id |-> id, name |-> name, input |-> input]

\* anthropic.NewToolResultBlock(id, text, isError)
NewToolResultBlock(id, text, isError) ==
    [type |-> "tool_result", id |-> id, text |-> text, is_error |-> isError]

\* anthropic.NewUserMessage(blocks...)
NewUserMessage(blocks) == [role |-> "user", content |-> blocks]

\* message.ToParam()
ToParam(message) == [role |-> "assistant", content |-> message.content]

NilTurn == [role |-> "nil", content |-> <<>>]

\* []anthropic.MessageParam{}: no backing array yet
EmptySlice == [arr |-> 0, len |-> 0, cap |-> 0]

\* the elements a slice header shows
View(h, s) == IF s.len = 0 THEN <<>> ELSE SubSeq(h[s.arr], 1, s.len)

\* capacity append gives a full slice: 0 -> 1, then doubled
GrowCap(c) == IF c = 0 THEN 1 ELSE 2 * c

AppendInPlace(h, s, x) ==
    [heap |-> [h EXCEPT ![s.arr][s.len + 1] = x],
     slice |-> [s EXCEPT !.len = s.len + 1]]

AppendGrow(h, s, x) ==
    LET ncap == GrowCap(s.cap)
        cells == [k \in 1..ncap |->
                    IF k <= s.len THEN h[s.arr][k]
                    ELSE IF k = s.len + 1 THEN x ELSE NilTurn]
    IN [heap |-> Append(h, cells),
        slice |-> [arr |-> Len(h) + 1, len |-> s.len + 1, cap |-> ncap]]

\* append(s, x)
GoAppend(h, s, x) ==
    IF s.len < s.cap THEN AppendInPlace(h, s, x) ELSE AppendGrow(h, s, x)

-----------------------------------------------------------------------------
(* Tools: the registry, the handlers, the dispatcher *)

\* A handler's (string, error) result; main.go's ReadFile can also panic.
Ok(text) == [kind |-> "ok", text |-> text]
Err(text) == [kind |-> "err", text |-> text]
Panic(text) == [kind |-> "panic", text |-> text]

\* What the file system answers to the handler's I/O (external state).
IoOutcomes == {"ok", "fail"}

\* tools.ReadFile, without a line range
ReadFile(input, io) ==
    IF ~input.decodable THEN Err(<<"failed to parse input: ", "json">>)
    ELSE IF input.path = "" THEN Err(<<"path is required">>)
    ELSE IF io = "fail" THEN Err(<<"failed to read file: ", "io">>)
    ELSE Ok(<<"content">>)

\* tools.ListFiles
ListFiles(input, io) ==
    IF ~input.decodable THEN Err(<<"failed to parse input: ", "json">>)
    ELSE IF io = "fail" THEN Err(<<"failed to read directory: ", "io">>)
    ELSE Ok(<<"[files]">>)

\* tools.EditFile: input validation; the edit itself is the file system's answer
EditFile(input, io) ==
    IF ~input.decodable THEN Err(<<"failed to parse input: ", "json">>)
    ELSE IF input.path = "" THEN Err(<<"path is required">>)
    ELSE IF input.mode = "" THEN Err(<<"mode is required">>)
    ELSE IF io = "fail" THEN Err(<<"failed to read file: ", "io">>)
    ELSE Ok(<<"Successfully edited file using ", input.mode, " mode">>)

\* main.go's ReadFile: a decode failure panics
MainReadFile(input, io) ==
    IF ~input.decodable THEN Panic(<<"json">>)
    ELSE IF input.path = "" \/ io = "fail" THEN Err(<<"io">>)
    ELSE Ok(<<"content">>)

ReadFileDefinition == [Name |-> "read_file", Function |-> "tools.ReadFile"]
ListFilesDefinition == [Name |-> "list_files", Function |-> "tools.ListFiles"]
EditFileDefinition == [Name |-> "edit_file", Function |-> "tools.EditFile"]
ReadFileDefination == [Name |-> "read_file", Function |-> "main.ReadFile"]

\* tools.GetAllTools()
GetAllTools == <<ReadFileDefinition, ListFilesDefinition, EditFileDefinition>>

\* main.go: tools := []ToolDefinition{ReadFileDefination}
MainTools == <<ReadFileDefination>>

\* toolDef.Function(input)
CallFunction(fn, input, io) ==
    CASE fn = "tools.ReadFile" -> ReadFile(input, io)
      [] fn = "tools.ListFiles" -> ListFiles(input, io)
      [] fn = "tools.EditFile" -> EditFile(input, io)
      [] fn = "main.ReadFile" -> MainReadFile(input, io)

\* the lookup loop: the first tool whose Name equals name
Found(tools, name) == \E k \in 1..Len(tools) : tools[k].Name = name

Lookup(tools, name) ==
    tools[CHOOSE k \in 1..Len(tools) :
            /\ tools[k].Name = name
            /\ \A j \in 1..(k - 1) : tools[j].Name # name]

\* faulty variant of ExecuteTool: a handler's error is returned as a success
ExecuteToolHidesError(tools, id, name, input, io) ==
    IF ~Found(tools, name)
    THEN [kind |-> "ok", called |-> "none", ret |-> Ok(<<>>),
          block |-> NewToolResultBlock(id, <<"tool not found">>, TRUE)]
    ELSE LET toolDef == Lookup(tools, name)
             r == CallFunction(toolDef.Function, input, io)
         IN [kind |-> IF r.kind = "panic" THEN "panic" ELSE "ok",
             called |-> toolDef.Function,
             ret |-> r,
             block |-> NewToolResultBlock(id, r.text, FALSE)]

\* faulty variant of ExecuteTool: an unknown name runs the first registered tool
ExecuteToolFallsBack(tools, id, name, input, io) ==
    LET toolDef == IF Found(tools, name) THEN Lookup(tools, name) ELSE tools[1]
        r == CallFunction(toolDef.Function, input, io)
    IN [kind |-> IF r.kind = "panic" THEN "panic" ELSE "ok",
        called |-> toolDef.Function,
        ret |-> r,
        block |-> IF r.kind = "ok"
                  THEN NewToolResultBlock(id, r.text, FALSE)
                  ELSE NewToolResultBlock(id, r.text, TRUE)]

\* Agent.ExecuteTool / Agent.executeTool: the result block, the handler that
\* was called ("none" when the name is not registered) and what it returned;
\* a panic of the handler passes through
ExecuteTool(tools, id, name, input, io) ==
    IF ~Found(tools, name)
    THEN [kind |-> "ok", called |-> "none", ret |-> Ok(<<>>),
          block |-> NewToolResultBlock(id, <<"tool not found">>, TRUE)]
    ELSE LET toolDef == Lookup(tools, name)
             r == CallFunction(toolDef.Function, input, io)
         IN [kind |-> IF r.kind = "panic" THEN "panic" ELSE "ok",
             called |-> toolDef.Function,
             ret |-> r,
             block |-> IF r.kind = "ok"
                       THEN NewToolResultBlock(id, r.text, FALSE)
                       ELSE NewToolResultBlock(id, r.text, TRUE)]

-----------------------------------------------------------------------------
(* The model call: Agent.RunInferenceWithStreaming *)

RECURSIVE Concat(_)
\* concatenation of a sequence of strings (by halves: the depth of the
\* evaluation stays small for a long sequence)
Concat(ss) ==
    IF ss = <<>> THEN <<>>
    ELSE IF Len(ss) = 1 THEN ss[1]
    ELSE LET half == Len(ss) \div 2
         IN Concat(SubSeq(ss, 1, half)) \o Concat(SubSeq(ss, half + 1, Len(ss)))

\* Raw tool inputs the model sends: `decodable` is whether json.Unmarshal into
\* the handler's input struct succeeds.
GoodPath == [decodable |-> TRUE, path |-> "f", mode |-> ""]
Undecodable == [decodable |-> FALSE, path |-> "", mode |-> ""]

\* What a model call can do: stream text deltas, then return a message or an
\* error.  A final answer; a turn that calls an unregistered tool, read_file
\* with undecodable input and read_file with a path; a failure after some text
\* has been streamed.
Responses ==
    { [deltas |-> << <<"a">> >>, tools |-> <<>>, err |-> FALSE],
      [deltas |-> <<>>,
       tools |-> <<ToolUseBlock("t1", "does_not_exist", GoodPath),
                   ToolUseBlock("t2", "read_file", Undecodable),
                   ToolUseBlock("t3", "read_file", GoodPath)>>,
       err |-> FALSE],
      [deltas |-> << <<"c">> >>, tools |-> <<>>, err |-> TRUE] }

\* A long answer: a final message whose text is streamed in LongDeltas deltas.
LongResponses ==
    { [deltas |-> [k \in 1..LongDeltas |-> <<"b">>], tools |-> <<>>, err |-> FALSE] }

\* the materialized message: a text block with the streamed text, then the tool uses
MessageOf(resp) ==
    [content |-> (IF resp.deltas = <<>> THEN <<>>
                  ELSE <<TextBlock(Concat(resp.deltas))>>) \o resp.tools]

\* err.Error()
ErrorText == <<"api error">>

-----------------------------------------------------------------------------
(* The chat program: state after InitialChatModel *)

\* a nil channel
NoChan == 0

InitialChatModel ==
    [conversation |-> EmptySlice,
     messages |-> <<>>,
     currentStreamingMessage |-> <<>>,
     isStreaming |-> FALSE,
     streamingChan |-> NoChan]

IdleGoroutine ==
    [pc |-> "none", resp |-> [deltas |-> <<>>, tools |-> <<>>, err |-> FALSE],
     sent |-> 0, message |-> [content |-> <<>>], ci |-> 1,
     hasToolCalls |-> FALSE, toolResults |-> <<>>]

\* History of one submission:
\*   base      len(m.conversation) when Run was entered
\*   appended  the turns Run and its goroutine have appended, in order
\*   calls     model calls issued;  rounds: returned messages with a tool_use
\*   issued    the m.conversation header the last call was issued with
\*   carried   the turns the last call carried
\*   executed  the tool_use blocks dispatched in the current pass, with the
\*             handler called and what it returned
\*   failed    a model call has returned an error
\*   enq       the fragments sent on the submission's channel, in order
\*   rcv       the fragments received from the submission's channel, in order
\*   ends      the streamingCompleteMsg the closed channel has produced
NoHist ==
    [base |-> 0, appended |-> <<>>, calls |-> 0, rounds |-> 0,
     issued |-> EmptySlice, carried |-> <<>>,
     executed |-> <<>>, failed |-> FALSE,
     enq |-> <<>>, rcv |-> <<>>, ends |-> 0]

\* the line-oriented loop before main() calls Agent.Run
NoCli ==
    [prog |-> "none", pc |-> "none", conversation |-> <<>>, readUserInput |-> TRUE,
     message |-> [content |-> <<>>], ci |-> 1, toolResults |-> <<>>,
     inputs |-> 0, calls |-> 0, out |-> <<>>, executed |-> <<>>,
     tools |-> <<>>, advertised |-> {}]

\* the list tool before any directory is there
NoList ==
    [pc |-> "idle", tree |-> {}, io |-> "ok",
     in |-> [decodable |-> TRUE, recursive |-> "absent", has_depth |-> FALSE,
             max_depth |-> 0],
     res |-> [ok |-> TRUE, files |-> <<>>]]

\* the read tool before any file is there
NoRead ==
    [pc |-> "idle", file |-> <<>>, io |-> "ok",
     in |-> [decodable |-> TRUE, path |-> "", has_start |-> FALSE, start_line |-> 0,
             has_end |-> FALSE, end_line |-> 0],
     res |-> [ok |-> TRUE, text |-> <<>>, err |-> ""]]

\* the edit tool before any file is there
NoEdit ==
    [pc |-> "idle", file |-> <<>>, before |-> <<>>, io |-> "ok",
     in |-> [decodable |-> TRUE, path |-> "", mode |-> "", old_str |-> <<>>,
             new_str |-> <<>>, has_line |-> FALSE, line_number |-> 0],
     res |-> [ok |-> TRUE, text |-> "", file |-> <<>>, writes |-> 0]]

Init ==
    /\ callFirst \in BOOLEAN
    /\ held = InitialChatModel
    /\ upd = [st |-> "idle", sub |-> 0, m |-> InitialChatModel]
    /\ heap = <<>>
    /\ loc = [i \in Subs |-> [conversation |-> EmptySlice, streamingChan |-> NoChan]]
    /\ g = [i \in Subs |-> IdleGoroutine]
    /\ chans = [i \in Subs |-> [buf |-> <<>>, closed |-> FALSE, made |-> FALSE]]
    /\ waiting = EmptyBag
    /\ nsubs = 0
    /\ hist = [i \in Subs |-> NoHist]
    /\ cli = NoCli
    /\ ed = NoEdit
    /\ ls = NoList
    /\ rf = NoRead

\* m.streamingChan <- text: blocks while the buffer is full
CanSend(c) == chans[c].made /\ ~chans[c].closed /\ Len(chans[c].buf) < ChanCap

Send(cs, c, text) == [cs EXCEPT ![c].buf = Append(@, text)]

\* A string on its way through a channel: the text, with the model call of the
\* submission it was sent under and what sent it (the streaming callback, the
\* error branch, the tool notice); call and kind are history, the program
\* sends the text only.
Fragment(text, call, kind) == [text |-> text, call |-> call, kind |-> kind]

\* close(m.streamingChan)
Close(cs, c) == [cs EXCEPT ![c].closed = TRUE]

-----------------------------------------------------------------------------
(* The chat program: model.Update on Enter, and model.Run *)

\* What the textarea may hold when Enter is pressed.
TextareaValues == { <<>>, <<" ">>, <<"hi">>, <<" ", "hi", " ">> }

RECURSIVE TrimLeft(_)
TrimLeft(v) == IF v # <<>> /\ Head(v) = " " THEN TrimLeft(Tail(v)) ELSE v

RECURSIVE TrimRight(_)
TrimRight(v) ==
    IF v # <<>> /\ v[Len(v)] = " " THEN TrimRight(SubSeq(v, 1, Len(v) - 1)) ELSE v

\* strings.TrimSpace
TrimSpace(v) == TrimRight(TrimLeft(v))

\* model.Run up to the go statement: the channel and the user turn.
\* m is the Update call's local model, c the channel make() returns.
RunPrologue(h, m, userInput, c) ==
    LET turn == NewUserMessage(<<TextBlock(userInput)>>)
        ap == IF userInput # <<>>
              THEN GoAppend(h, m.conversation, turn)
              ELSE [heap |-> h, slice |-> m.conversation]
    IN [heap |-> ap.heap,
        m |-> [m EXCEPT !.streamingChan = c, !.conversation = ap.slice],
        appended |-> IF userInput # <<>> THEN <<turn>> ELSE <<>>]

\* the model the KeyEnter case returns: the local m as it is when it is copied
ReturnedModel(m, conversation) == [m EXCEPT !.conversation = conversation]

\* model.Update, case tea.KeyEnter with an empty (trimmed) textarea: return m, nil
UpdateKeyEnterEmpty ==
    /\ upd.st = "idle"
    /\ \E value \in TextareaValues : TrimSpace(value) = <<>>
    /\ UNCHANGED vars

\* model.Update, case tea.KeyEnter: the user message, then m.Run(ctx, inputMsg).
\* A build that copies m first returns here; one that calls first returns in
\* UpdateKeyEnterReturn, after the goroutine has been started.
UpdateKeyEnter ==
    /\ upd.st = "idle"
    /\ nsubs < MaxSubs
    /\ \E value \in TextareaValues :
        LET inputMsg == TrimSpace(value)
            i == nsubs + 1
            m0 == [held EXCEPT !.messages =
                        Append(@, [Content |-> inputMsg, IsUser |-> TRUE])]
            run == RunPrologue(heap, m0, inputMsg, i)
        IN /\ inputMsg # <<>>
           /\ nsubs' = i
           /\ heap' = run.heap
           /\ loc' = [loc EXCEPT ![i] = [conversation |-> run.m.conversation,
                                         streamingChan |-> run.m.streamingChan]]
           /\ chans' = [chans EXCEPT ![i].made = TRUE]
           /\ g' = [g EXCEPT ![i].pc = "call", ![i].hasToolCalls = TRUE]
           /\ hist' = [hist EXCEPT ![i].base = m0.conversation.len,
                                   ![i].appended = run.appended]
           /\ IF callFirst
              THEN /\ upd' = [st |-> "ret", sub |-> i, m |-> run.m]
                   /\ UNCHANGED <<held, waiting>>
              ELSE /\ held' = ReturnedModel(m0, m0.conversation)
                   /\ waiting' = waiting (+) SetToBag({i})
                   /\ UNCHANGED upd
    /\ UNCHANGED <<callFirst, cli, ed, ls, rf>>

\* the return of the KeyEnter case in a build that calls m.Run first: m is read
\* now, with whatever the goroutine has stored in m.conversation meanwhile
UpdateKeyEnterReturn ==
    /\ upd.st = "ret"
    /\ held' = ReturnedModel(upd.m, loc[upd.sub].conversation)
    /\ waiting' = waiting (+) SetToBag({upd.sub})
    /\ upd' = [st |-> "idle", sub |-> 0, m |-> InitialChatModel]
    /\ UNCHANGED <<callFirst, heap, loc, g, chans, nsubs, hist, cli, ed, ls, rf>>

-----------------------------------------------------------------------------
(* The chat program: the goroutine of model.Run *)

\* faulty variant of NextToolUse: the range loop stops after the first tool_use
FirstToolUseOnly(content, k) ==
    IF k = 1 /\ \E j \in 1..Len(content) : content[j].type = "tool_use"
    THEN CHOOSE j \in 1..Len(content) :
            /\ content[j].type = "tool_use"
            /\ \A l \in 1..(j - 1) : content[l].type # "tool_use"
    ELSE Len(content) + 1

\* first index >= k of a tool_use block, Len + 1 if there is none
NextToolUse(content, k) ==
    IF \E j \in k..Len(content) : content[j].type = "tool_use"
    THEN CHOOSE j \in k..Len(content) :
            /\ content[j].type = "tool_use"
            /\ \A l \in k..(j - 1) : content[l].type # "tool_use"
    ELSE Len(content) + 1

RECURSIVE CallsUpTo(_)
\* model calls issued by the submissions 1..n
CallsUpTo(n) == IF n = 0 THEN 0 ELSE hist[n].calls + CallsUpTo(n - 1)

\* model calls issued so far in the session
TotalCalls == CallsUpTo(MaxSubs)

\* top of `for hasToolCalls`: the model call is issued with m.conversation;
\* the model answers with one of responses, the session is cut at limit calls
IssueCallFrom(i, responses, limit) ==
    /\ g[i].pc = "call"
    /\ g[i].hasToolCalls
    /\ TotalCalls < limit
    /\ \E r \in responses :
        g' = [g EXCEPT ![i].pc = "stream", ![i].resp = r, ![i].sent = 0,
                       ![i].hasToolCalls = FALSE]
    /\ hist' = [hist EXCEPT ![i].calls = @ + 1,
                            ![i].issued = loc[i].conversation,
                            ![i].carried = View(heap, loc[i].conversation)]
    /\ UNCHANGED <<callFirst, held, upd, heap, loc, chans, waiting, nsubs, cli, ed, ls, rf>>

IssueCall(i) == IssueCallFrom(i, Responses, MaxCalls)

\* the streaming callback: m.streamingChan <- text
StreamText(i) ==
    /\ g[i].pc = "stream"
    /\ g[i].sent < Len(g[i].resp.deltas)
    /\ CanSend(loc[i].streamingChan)
    /\ LET frag == Fragment(g[i].resp.deltas[g[i].sent + 1], hist[i].calls, "delta")
       IN /\ chans' = Send(chans, loc[i].streamingChan, frag)
          /\ hist' = [hist EXCEPT ![i].enq = Append(@, frag)]
    /\ g' = [g EXCEPT ![i].sent = @ + 1]
    /\ UNCHANGED <<callFirst, held, upd, heap, loc, waiting, nsubs, cli, ed, ls, rf>>

\* fmt.Sprintf("Error: %s", err.Error())
ErrorFragment(err) == <<"Error: ">> \o err

\* faulty variant of InferenceError: the loop goes round instead of returning
InferenceErrorContinues(i) ==
    /\ g[i].pc = "stream"
    /\ g[i].sent = Len(g[i].resp.deltas)
    /\ g[i].resp.err
    /\ CanSend(loc[i].streamingChan)
    /\ LET frag == Fragment(ErrorFragment(ErrorText), hist[i].calls, "error")
       IN /\ chans' = Send(chans, loc[i].streamingChan, frag)
          /\ hist' = [hist EXCEPT ![i].failed = TRUE, ![i].enq = Append(@, frag)]
    /\ g' = [g EXCEPT ![i].pc = "call", ![i].hasToolCalls = TRUE]
    /\ UNCHANGED <<callFirst, held, upd, heap, loc, waiting, nsubs, cli, ed, ls, rf>>

\* err != nil: the error is sent on the channel, the goroutine returns, the
\* deferred close runs
InferenceError(i) ==
    /\ g[i].pc = "stream"
    /\ g[i].sent = Len(g[i].resp.deltas)
    /\ g[i].resp.err
    /\ CanSend(loc[i].streamingChan)
    /\ LET frag == Fragment(ErrorFragment(ErrorText), hist[i].calls, "error")
       IN /\ chans' = Close(Send(chans, loc[i].streamingChan, frag),
                            loc[i].streamingChan)
          /\ hist' = [hist EXCEPT ![i].failed = TRUE, ![i].enq = Append(@, frag)]
    /\ g' = [g EXCEPT ![i].pc = "done"]
    /\ UNCHANGED <<callFirst, held, upd, heap, loc, waiting, nsubs, cli, ed, ls, rf>>

\* faulty variant of EndOfPass: the tool results are not appended
EndOfPassDropsResults(c, h, conversation, cs, hasToolCalls, toolResults) ==
    IF hasToolCalls
    THEN [heap |-> h, conversation |-> conversation, chans |-> cs,
          pc |-> "call", appended |-> <<>>]
    ELSE [heap |-> h, conversation |-> conversation,
          chans |-> Close(cs, c),
          pc |-> "done", appended |-> <<>>]

\* faulty variant of EndOfPass: the tool results are appended last first
EndOfPassReversed(c, h, conversation, cs, hasToolCalls, toolResults) ==
    IF hasToolCalls
    THEN LET turn == NewUserMessage([k \in 1..Len(toolResults) |->
                                        toolResults[Len(toolResults) + 1 - k]])
             ap == GoAppend(h, conversation, turn)
         IN [heap |-> ap.heap, conversation |-> ap.slice, chans |-> cs,
             pc |-> "call", appended |-> <<turn>>]
    ELSE [heap |-> h, conversation |-> conversation,
          chans |-> Close(cs, c),
          pc |-> "done", appended |-> <<>>]

\* faulty variant of EndOfPass: the tool-result turn is appended whether or not
\* the message held a tool call
EndOfPassAppendsAlways(c, h, conversation, cs, hasToolCalls, toolResults) ==
    LET turn == NewUserMessage(toolResults)
        ap == GoAppend(h, conversation, turn)
    IN [heap |-> ap.heap, conversation |-> ap.slice,
        chans |-> IF hasToolCalls THEN cs ELSE Close(cs, c),
        pc |-> IF hasToolCalls THEN "call" ELSE "done",
        appended |-> <<turn>>]

\* faulty variant of EndOfPass: the loop goes round whether or not the message
\* held a tool call (hasToolCalls is not reset)
EndOfPassLoopsAlways(c, h, conversation, cs, hasToolCalls, toolResults) ==
    IF hasToolCalls
    THEN LET turn == NewUserMessage(toolResults)
             ap == GoAppend(h, conversation, turn)
         IN [heap |-> ap.heap, conversation |-> ap.slice, chans |-> cs,
             pc |-> "call", appended |-> <<turn>>]
    ELSE [heap |-> h, conversation |-> conversation, chans |-> cs,
          pc |-> "call", appended |-> <<>>]

\* the end of one pass of `for hasToolCalls`, after the range loop over
\* message.Content: with a tool call the tool-result turn is appended and the
\* loop goes round; without, the loop ends and the deferred close runs.
\* h, conversation, cs: heap, m.conversation and the channels at that point;
\* c: m.streamingChan.
EndOfPass(c, h, conversation, cs, hasToolCalls, toolResults) ==
    IF hasToolCalls
    THEN LET turn == NewUserMessage(toolResults)
             ap == GoAppend(h, conversation, turn)
         IN [heap |-> ap.heap, conversation |-> ap.slice, chans |-> cs,
             pc |-> "call", appended |-> <<turn>>]
    ELSE [heap |-> h, conversation |-> conversation,
          chans |-> Close(cs, c),
          pc |-> "done", appended |-> <<>>]

\* err == nil: m.conversation = append(m.conversation, message.ToParam()); a
\* message without tool_use blocks ends the pass at once
InferenceReturn(i) ==
    /\ g[i].pc = "stream"
    /\ g[i].sent = Len(g[i].resp.deltas)
    /\ ~g[i].resp.err
    /\ LET message == MessageOf(g[i].resp)
           ap == GoAppend(heap, loc[i].conversation, ToParam(message))
           first == NextToolUse(message.content, 1)
           end == EndOfPass(loc[i].streamingChan, ap.heap, ap.slice, chans, FALSE, <<>>)
           more == first <= Len(message.content)
       IN /\ heap' = IF more THEN ap.heap ELSE end.heap
          /\ loc' = [loc EXCEPT ![i].conversation =
                        IF more THEN ap.slice ELSE end.conversation]
          /\ chans' = IF more THEN chans ELSE end.chans
          /\ g' = [g EXCEPT ![i].pc = IF more THEN "tools" ELSE end.pc,
                            ![i].message = message,
                            ![i].toolResults = <<>>,
                            ![i].ci = first]
          /\ hist' = [hist EXCEPT ![i].appended = Append(@, ToParam(message)),
                                  ![i].rounds = IF g[i].resp.tools # <<>>
                                                THEN @ + 1 ELSE @,
                                  ![i].executed = <<>>]
    /\ UNCHANGED <<callFirst, held, upd, waiting, nsubs, cli, ed, ls, rf>>

\* fmt.Sprintf("\n Using tool: %s\n", content.Name)
ToolNotice(name) == <<"Using tool: ", name>>

\* case "tool_use": the notice, m.agent.ExecuteTool, the result collected; after
\* the last block of the message the pass ends (a handler that panics would
\* end the process here; the handlers of package tools return their errors)
DispatchTool(i) ==
    /\ g[i].pc = "tools"
    /\ g[i].ci <= Len(g[i].message.content)
    /\ CanSend(loc[i].streamingChan)
    /\ \E io \in IoOutcomes :
        LET content == g[i].message.content[g[i].ci]
            result == ExecuteTool(GetAllTools, content.id, content.name, content.input, io)
            toolResults == Append(g[i].toolResults, result.block)
            next == NextToolUse(g[i].message.content, g[i].ci + 1)
            more == next <= Len(g[i].message.content)
            frag == Fragment(ToolNotice(content.name), hist[i].calls, "notice")
            sent == Send(chans, loc[i].streamingChan, frag)
            end == EndOfPass(loc[i].streamingChan, heap, loc[i].conversation, sent,
                             TRUE, toolResults)
        IN /\ result.kind # "panic"
           /\ chans' = IF more THEN sent ELSE end.chans
           /\ heap' = IF more THEN heap ELSE end.heap
           /\ loc' = [loc EXCEPT ![i].conversation =
                         IF more THEN @ ELSE end.conversation]
           /\ g' = [g EXCEPT ![i].hasToolCalls = TRUE,
                             ![i].toolResults = toolResults,
                             ![i].ci = next,
                             ![i].pc = IF more THEN "tools" ELSE end.pc]
           /\ hist' = [hist EXCEPT
                         ![i].executed = Append(@, [id |-> content.id,
                                                    name |-> content.name,
                                                    called |-> result.called,
                                                    ret |-> result.ret]),
                         ![i].appended = IF more THEN @ ELSE @ \o end.appended,
                         ![i].enq = Append(@, frag)]
    /\ UNCHANGED <<callFirst, held, upd, waiting, nsubs, cli, ed, ls, rf>>

-----------------------------------------------------------------------------
(* The chat program: the streaming commands and their messages *)

streamingTextMsg(text) == [type |-> "streamingTextMsg", text |-> text]
streamingCompleteMsg == [type |-> "streamingCompleteMsg", text |-> <<>>]
Blocked == [type |-> "blocked", text |-> <<>>]

\* what the command of waitForStreamingText returns when it runs on a model
\* whose streamingChan is c (Blocked: it waits in the receive)
waitForStreamingText(c) ==
    IF c = NoChan THEN streamingCompleteMsg
    ELSE IF chans[c].buf # <<>> THEN streamingTextMsg(Head(chans[c].buf).text)
    ELSE IF chans[c].closed THEN streamingCompleteMsg
    ELSE Blocked

\* A waiting command receives a fragment and the runtime gives its message to
\* model.Update, case streamingTextMsg (the runtime's hand-over of the message
\* is taken as one step with the receive).
UpdateStreamingText(c) ==
    /\ upd.st = "idle"
    /\ BagIn(c, waiting)
    /\ LET msg == waitForStreamingText(c)
       IN /\ msg.type = "streamingTextMsg"
          /\ chans' = [chans EXCEPT ![c].buf = Tail(@)]
          /\ held' = [held EXCEPT
                        !.isStreaming = TRUE,
                        !.currentStreamingMessage =
                            (IF held.isStreaming THEN @ ELSE <<>>) \o msg.text]
          /\ waiting' = (waiting (-) SetToBag({c})) (+) SetToBag({held.streamingChan})
          /\ hist' = [hist EXCEPT ![c].rcv = Append(@, Head(chans[c].buf))]
    /\ UNCHANGED <<callFirst, upd, heap, loc, g, nsubs, cli, ed, ls, rf>>

\* A waiting command finds its channel nil or closed and drained, and the
\* runtime gives its message to model.Update, case streamingCompleteMsg.
UpdateStreamingComplete(c) ==
    /\ upd.st = "idle"
    /\ BagIn(c, waiting)
    /\ waitForStreamingText(c).type = "streamingCompleteMsg"
    /\ waiting' = waiting (-) SetToBag({c})
    /\ held' = [held EXCEPT
                  !.messages = IF held.currentStreamingMessage # <<>>
                               THEN Append(@, [Content |-> held.currentStreamingMessage,
                                               IsUser |-> FALSE])
                               ELSE @,
                  !.isStreaming = FALSE,
                  !.streamingChan = NoChan,
                  !.currentStreamingMessage = <<>>]
    /\ hist' = IF c = NoChan THEN hist ELSE [hist EXCEPT ![c].ends = @ + 1]
    /\ UNCHANGED <<callFirst, upd, heap, loc, g, chans, nsubs, cli, ed, ls, rf>>

Next ==
    \/ UpdateKeyEnterEmpty
    \/ UpdateKeyEnter
    \/ UpdateKeyEnterReturn
    \/ \E i \in Subs : IssueCall(i)
    \/ \E i \in Subs : StreamText(i)
    \/ \E i \in Subs : InferenceError(i)
    \/ \E i \in Subs : InferenceReturn(i)
    \/ \E i \in Subs : DispatchTool(i)
    \/ \E c \in Subs \cup {NoChan} : UpdateStreamingText(c)
    \/ \E c \in Subs \cup {NoChan} : UpdateStreamingComplete(c)

Spec == Init /\ [][Next]_vars

-----------------------------------------------------------------------------
(* The chat program with a long answer: one submission, one model call that
   streams more deltas than the channel buffers *)

\* Enter on the first message of the session
FirstKeyEnter == nsubs = 0 /\ UpdateKeyEnter

LongIssueCall(i) == IssueCallFrom(i, LongResponses, MaxCalls)

NextFull ==
    \/ FirstKeyEnter
    \/ UpdateKeyEnterReturn
    \/ \E i \in Subs : LongIssueCall(i)
    \/ \E i \in Subs : StreamText(i)
    \/ \E i \in Subs : InferenceReturn(i)
    \/ \E c \in Subs \cup {NoChan} : UpdateStreamingText(c)
    \/ \E c \in Subs \cup {NoChan} : UpdateStreamingComplete(c)

SpecFull == Init /\ [][NextFull]_vars

-----------------------------------------------------------------------------
(* The line-oriented loop: Agent.Run of main.go and of agent/agent.go *)

\* the two programs: main.go registers its own ReadFile, agent/agent.go is
\* given the registry of package tools
CliPrograms == {"main", "agent"}

CliTools(prog) == IF prog = "main" THEN MainTools ELSE GetAllTools

\* what scanner.Text() may return
CliLines == { <<>>, <<"hi">> }

InitCli ==
    /\ callFirst = FALSE
    /\ held = InitialChatModel
    /\ upd = [st |-> "idle", sub |-> 0, m |-> InitialChatModel]
    /\ heap = <<>>
    /\ loc = [i \in Subs |-> [conversation |-> EmptySlice, streamingChan |-> NoChan]]
    /\ g = [i \in Subs |-> IdleGoroutine]
    /\ chans = [i \in Subs |-> [buf |-> <<>>, closed |-> FALSE, made |-> FALSE]]
    /\ waiting = EmptyBag
    /\ nsubs = 0
    /\ hist = [i \in Subs |-> NoHist]
    /\ \E prog \in CliPrograms :
          cli = [NoCli EXCEPT !.prog = prog, !.pc = "read", !.tools = CliTools(prog)]
    /\ ed = NoEdit
    /\ ls = NoList
    /\ rf = NoRead

chatVars == <<callFirst, held, upd, heap, loc, g, chans, waiting, nsubs, hist>>

\* the end of one pass of `for`: without tool results the next pass reads the
\* user; with them the tool-result turn is appended and the model is called again
CliEndOfPass(c, toolResults) ==
    IF Len(toolResults) = 0
    THEN [c EXCEPT !.readUserInput = TRUE, !.pc = "read", !.toolResults = toolResults]
    ELSE [c EXCEPT !.readUserInput = FALSE, !.pc = "call",
                   !.toolResults = toolResults,
                   !.conversation = Append(@, NewUserMessage(toolResults))]

\* readUserInput: a.getUserMessage(); !ok breaks out of the loop (return nil)
CliGetUserMessage ==
    /\ cli.pc = "read"
    /\ cli.readUserInput
    /\ \/ cli' = [cli EXCEPT !.pc = "exited"]
       \/ /\ cli.inputs < MaxSubs
          /\ \E userInput \in CliLines :
                cli' = [cli EXCEPT !.pc = "call", !.inputs = @ + 1,
                          !.conversation =
                              Append(@, NewUserMessage(<<TextBlock(userInput)>>))]
    /\ UNCHANGED <<chatVars, ed, ls, rf>>

\* faulty variant of AnthropicTools: the last tool of the registry is left out
AnthropicToolsButLast(tools) ==
    [k \in 1..(Len(tools) - 1) |-> tools[k].Name]

\* runInference: the names of the tools sent with a model call, one
\* anthropic.ToolUnionParam for each element of a.tools
AnthropicTools(tools) == [k \in 1..Len(tools) |-> tools[k].Name]

\* a.runInference(ctx, conversation): an error returns it from Run; a message
\* is appended and its content ranged over
CliRunInference ==
    /\ cli.pc = "call"
    /\ cli.calls < MaxCalls
    /\ \E r \in Responses :
        LET message == MessageOf(r)
            c1 == [cli EXCEPT !.calls = @ + 1,
                              !.advertised = @ \cup {AnthropicTools(cli.tools)}]
            c2 == [c1 EXCEPT !.conversation = Append(@, ToParam(message)),
                             !.message = message, !.ci = 1,
                             !.toolResults = <<>>, !.executed = <<>>]
        IN cli' = IF r.err THEN [c1 EXCEPT !.pc = "failed"]
                  ELSE IF message.content = <<>> THEN CliEndOfPass(c2, <<>>)
                  ELSE [c2 EXCEPT !.pc = "content"]
    /\ UNCHANGED <<chatVars, ed, ls, rf>>

\* one block of message.Content: text is printed, a tool_use is executed and its
\* result collected; a panic of the handler ends the process
CliContent ==
    /\ cli.pc = "content"
    /\ cli.ci <= Len(cli.message.content)
    /\ \E io \in IoOutcomes :
        LET content == cli.message.content[cli.ci]
            result == ExecuteTool(cli.tools, content.id, content.name,
                                  content.input, io)
            isTool == content.type = "tool_use"
            toolResults == IF isTool THEN Append(cli.toolResults, result.block)
                           ELSE cli.toolResults
            c1 == [cli EXCEPT !.ci = @ + 1,
                              !.out = IF isTool THEN @ ELSE Append(@, content.text),
                              !.executed =
                                  IF isTool
                                  THEN Append(@, [id |-> content.id,
                                                  name |-> content.name,
                                                  called |-> result.called,
                                                  ret |-> result.ret])
                                  ELSE @]
        IN cli' = IF isTool /\ result.kind = "panic"
                  THEN [cli EXCEPT !.pc = "crashed"]
                  ELSE IF cli.ci = Len(cli.message.content)
                  THEN CliEndOfPass(c1, toolResults)
                  ELSE [c1 EXCEPT !.toolResults = toolResults]
    /\ UNCHANGED <<chatVars, ed, ls, rf>>

NextCli ==
    \/ CliGetUserMessage
    \/ CliRunInference
    \/ CliContent

SpecCli == InitCli /\ [][NextCli]_vars

-----------------------------------------------------------------------------
(* Properties of the conversation loop *)

\* the tool_use blocks of a message, in order
ToolUses(content) == SelectSeq(content, LAMBDA b : b.type = "tool_use")

\* the ids of a sequence of tool_use or tool_result blocks
Ids(blocks) == [k \in 1..Len(blocks) |-> blocks[k].id]

IsModelTurn(t) == t.role = "assistant"

IsToolTurn(t) == IsModelTurn(t) /\ ToolUses(t.content) # <<>>

\* a user turn made of tool-result blocks only
IsResultTurn(t) ==
    /\ t.role = "user"
    /\ t.content # <<>>
    /\ \A k \in 1..Len(t.content) : t.content[k].type = "tool_result"

ModelTurns(turns) == SelectSeq(turns, IsModelTurn)

LastTurn(turns) == turns[Len(turns)]

\* C1: when the model has returned k >= 0 turns with tool invocations and then
\* one without, the loop of the submission has ended: the goroutine is done,
\* its channel is closed, nothing more is to be called or dispatched, and the
\* transcript is 2 + 2*k turns longer than when the submission began.  Until
\* then the loop goes on only because the last model turn held a tool call.
C1_TerminatesWithGrowth ==
    \A i \in Subs :
        /\ (g[i].pc = "done" /\ ~hist[i].failed) =>
              /\ chans[i].closed
              /\ ~g[i].hasToolCalls
              /\ ToolUses(g[i].message.content) = <<>>
              /\ loc[i].conversation.len = hist[i].base + 2 + 2 * hist[i].rounds
              /\ Len(hist[i].appended) = 2 + 2 * hist[i].rounds
        /\ (g[i].pc \in {"tools", "call"} /\ hist[i].calls > 0) =>
              /\ ToolUses(g[i].message.content) # <<>>
              /\ ~chans[i].closed
        /\ (g[i].pc = "stream" /\ hist[i].calls > 1) =>
              ToolUses(g[i].message.content) # <<>>

\* C1 witness: a submission has ended after two tool round trips, six turns longer
C1_Witness ==
    \E i \in Subs :
        /\ g[i].pc = "done" /\ ~hist[i].failed /\ chans[i].closed
        /\ hist[i].rounds = 2
        /\ loc[i].conversation.len = hist[i].base + 6

\* C2: a model turn with n >= 1 tool invocations that the loop has appended is
\* followed, in what the loop appends, by a user turn of exactly n tool-result
\* blocks, one for each invocation's id and none for any other id; only while
\* the invocations are being dispatched is that turn still to come.
C2_ResultPerInvocation ==
    \A i \in Subs :
        LET a == hist[i].appended
        IN /\ \A k \in 1..Len(a) :
                IsToolTurn(a[k]) =>
                    IF k = Len(a) THEN g[i].pc = "tools"
                    ELSE LET uses == ToolUses(a[k].content)
                             res == a[k + 1].content
                         IN /\ IsResultTurn(a[k + 1])
                            /\ Len(res) = Len(uses)
                            /\ \A u \in 1..Len(uses) :
                                  Cardinality({r \in 1..Len(res) :
                                                 res[r].id = uses[u].id}) = 1
                            /\ \A r \in 1..Len(res) :
                                  \E u \in 1..Len(uses) : uses[u].id = res[r].id
           /\ \A k \in 1..Len(a) :
                IsResultTurn(a[k]) => (k > 1 /\ IsToolTurn(a[k - 1]))

\* C2 witness: a turn with three invocations has been followed by its result turn
C2_Witness ==
    \E i \in Subs :
        LET a == hist[i].appended
        IN \E k \in 1..Len(a) :
             /\ k < Len(a)
             /\ Len(ToolUses(a[k].content)) = 3
             /\ Len(a[k + 1].content) = 3

\* C3: in a dispatch phase the invocations of the last model turn are executed
\* in the order of the turn, each result collected before the next invocation
\* starts, with every model call of the submission returned; the result turn
\* appended at the end of the phase holds the results in that same order.
C3_DispatchInOrder ==
    \A i \in Subs :
        LET uses == ToolUses(g[i].message.content)
            ex == hist[i].executed
        IN /\ Len(ex) <= Len(uses)
           /\ \A k \in 1..Len(ex) : ex[k].id = uses[k].id /\ ex[k].name = uses[k].name
           /\ g[i].pc = "tools" =>
                 /\ Len(g[i].toolResults) = Len(ex)
                 /\ Ids(g[i].toolResults) = Ids(ex)
                 /\ Len(ex) < Len(uses)
                 /\ g[i].message.content[g[i].ci] = uses[Len(ex) + 1]
                 /\ Len(ModelTurns(hist[i].appended)) = hist[i].calls
           /\ (g[i].pc = "call" /\ hist[i].calls > 0) =>
                 /\ Len(ex) = Len(uses)
                 /\ IsResultTurn(LastTurn(hist[i].appended))
                 /\ Ids(LastTurn(hist[i].appended).content) = Ids(uses)

\* C3 witness: after a phase of three invocations the result turn is appended
C3_Witness ==
    \E i \in Subs :
        /\ g[i].pc = "call"
        /\ Len(hist[i].executed) = 3
        /\ Ids(LastTurn(hist[i].appended).content) = <<"t1", "t2", "t3">>

\* C4: an invocation whose handler returned an error does not end the loop: its
\* collected result is the block with is_error = true and the error's message,
\* that block is in the result turn appended at the end of the phase at the
\* invocation's place, and the loop goes round to another model call (after
\* which the goroutine is done only if that call failed).
C4_HandlerErrorFedBack ==
    \A i \in Subs :
        \A k \in 1..Len(hist[i].executed) :
            LET e == hist[i].executed[k]
                block == NewToolResultBlock(e.id, e.ret.text, TRUE)
            IN (e.called # "none" /\ e.ret.kind = "err") =>
                 /\ g[i].toolResults[k] = block
                 /\ g[i].pc \in {"tools", "call", "stream", "done"}
                 /\ g[i].pc # "tools" =>
                       /\ IsResultTurn(LastTurn(hist[i].appended))
                       /\ LastTurn(hist[i].appended).content[k] = block
                 /\ g[i].pc = "call" => g[i].hasToolCalls
                 /\ g[i].pc = "stream" =>
                       hist[i].issued.len = hist[i].base + Len(hist[i].appended)
                 /\ g[i].pc = "done" => hist[i].failed

\* C4 witness: a handler has failed and the next model call has been issued
\* with the transcript that ends in the result turn
C4_Witness ==
    \E i \in Subs :
        /\ g[i].pc = "stream"
        /\ \E k \in 1..Len(hist[i].executed) :
              /\ hist[i].executed[k].called = "tools.ReadFile"
              /\ hist[i].executed[k].ret.kind = "err"
              /\ LastTurn(hist[i].appended).content[k].is_error
        /\ hist[i].issued.len = hist[i].base + Len(hist[i].appended)

\* C5: once a model call of a submission has failed the goroutine is done: no
\* model turn was appended for that call (model turns number one less than the
\* calls), m.conversation is the slice the call was issued with, the turns the
\* submission appended are those of the completed round trips, and nothing is
\* being called or dispatched.
C5_CallFailureStops ==
    \A i \in Subs :
        hist[i].failed =>
            /\ g[i].pc = "done"
            /\ chans[i].closed
            /\ loc[i].conversation = hist[i].issued
            /\ Len(ModelTurns(hist[i].appended)) = hist[i].calls - 1
            /\ Len(hist[i].appended) = 1 + 2 * (hist[i].calls - 1)
            /\ hist[i].rounds = hist[i].calls - 1

\* C5 witness: the second model call of a submission failed after a round trip
C5_Witness ==
    \E i \in Subs :
        /\ hist[i].failed
        /\ hist[i].calls = 2
        /\ loc[i].conversation = hist[i].issued
        /\ loc[i].conversation.len = hist[i].base + 3

\* the text is part of the string s
Carries(s, text) == \E k \in 1..Len(s) : s[k] = text

\* C6: a failure of the model call is no text fragment: no fragment on a
\* channel carries the error, and the error text is not part of the response
\* the chat accumulates or shows.
C6_ErrorIsNoFragment ==
    /\ \A c \in Subs : \A k \in 1..Len(chans[c].buf) :
          ~Carries(chans[c].buf[k].text, "api error")
    /\ ~Carries(held.currentStreamingMessage, "api error")
    /\ \A k \in 1..Len(held.messages) : ~Carries(held.messages[k].Content, "api error")

\* the names the registry registers
RegisteredNames == {"read_file", "list_files", "edit_file"}

\* C7: an invocation whose name is no registered tool's name calls no handler;
\* its result is the block with the invocation's id, is_error = true and the
\* text "tool not found"; the block is appended in the result turn and the
\* loop goes round to the next model call.
C7_ToolNotFound ==
    \A i \in Subs :
        \A k \in 1..Len(hist[i].executed) :
            LET e == hist[i].executed[k]
                block == [type |-> "tool_result", id |-> e.id,
                          text |-> <<"tool not found">>, is_error |-> TRUE]
            IN /\ e.name \notin RegisteredNames =>
                    /\ e.called = "none"
                    /\ g[i].toolResults[k] = block
                    /\ g[i].pc # "tools" =>
                          LastTurn(hist[i].appended).content[k] = block
                    /\ g[i].pc = "call" => g[i].hasToolCalls
                    /\ g[i].pc = "done" => hist[i].failed
               /\ e.name \in RegisteredNames => e.called # "none"

\* C7 witness: does_not_exist was dispatched and the next model call is issued
C7_Witness ==
    \E i \in Subs :
        /\ g[i].pc = "stream"
        /\ \E k \in 1..Len(hist[i].executed) :
              /\ hist[i].executed[k].name = "does_not_exist"
              /\ hist[i].executed[k].called = "none"
              /\ LastTurn(hist[i].appended).content[k].text = <<"tool not found">>

\* C8: raw input that cannot be decoded never ends the process: the loop of
\* Agent.Run does not crash, and the invocation's result is an error block.
C8_DecodeFailureIsNoCrash ==
    /\ cli.pc # "crashed"
    /\ \A k \in 1..Len(cli.executed) :
          (cli.executed[k].called # "none"
              /\ ~ToolUses(cli.message.content)[k].input.decodable)
            => /\ cli.executed[k].ret.kind = "err"
               /\ cli.pc = "content" => cli.toolResults[k].is_error

\* the turns alternate as the transcript of a model call must
Alternates(t) ==
    \A k \in 1..Len(t) :
        /\ IsModelTurn(t[k]) => (k > 1 /\ t[k - 1].role = "user")
        /\ (IsToolTurn(t[k]) /\ k < Len(t)) => IsResultTurn(t[k + 1])

\* C9: the transcript, as every model call carries it and as every submission
\* holds it, never has two model turns in a row: a model turn comes after a
\* user turn, and after a model turn with tool invocations comes the result turn.
C9_TurnsAlternate ==
    \A i \in Subs :
        /\ Alternates(hist[i].carried)
        /\ Alternates(View(heap, loc[i].conversation))

\* C10: a model call of a later submission carries every turn an earlier
\* submission has appended, unchanged and at the position it was appended at.
C10_AppendOnly ==
    [][\A i \in Subs :
          hist'[i].calls > hist[i].calls =>
            \A j \in 1..(i - 1) : \A k \in 1..Len(hist[j].appended) :
                LET p == hist[j].base + k
                IN /\ p <= Len(hist'[i].carried)
                   /\ hist'[i].carried[p] = hist[j].appended[k]]_vars


-----------------------------------------------------------------------------
(* Concurrency of the transcript *)

\* the next step of the goroutine of submission i stores into m.conversation
\* (chat.go:137 after a returned call, chat.go:156 after the last tool_use)
AppendsNext(i) ==
    \/ /\ g[i].pc = "stream"
       /\ g[i].sent = Len(g[i].resp.deltas)
       /\ ~g[i].resp.err
    \/ /\ g[i].pc = "tools"
       /\ NextToolUse(g[i].message.content, g[i].ci + 1) > Len(g[i].message.content)

\* the next step of the goroutine of submission i reads the transcript for a
\* model call (chat.go:128)
ReadsNext(i) == g[i].pc = "call" /\ g[i].hasToolCalls

\* append on the slice writes a cell of the array the slice shares
InPlace(s) == s.len < s.cap

\* the next steps of two threads touch the same cell of a backing array: both
\* append in place behind the same length, or one appends in place into the
\* cells the other reads
SameCell(s, sAppends, t, tAppends, tReads) ==
    /\ s.arr = t.arr
    /\ sAppends /\ InPlace(s)
    /\ \/ tAppends /\ InPlace(t) /\ t.len = s.len
       \/ tReads /\ t.len > s.len

\* C11: the transcript is never touched by two threads of control at once: the
\* Update call does not read m.conversation while the goroutine it started is
\* about to store into it, and no two of the Update call on Enter and the
\* goroutines of the submissions are about to append to, or append to and read,
\* the same cell of a transcript.
C11_SequentialAppends ==
    /\ ~(upd.st = "ret" /\ AppendsNext(upd.sub))
    /\ \A i \in Subs :
          ~(/\ upd.st = "idle" /\ nsubs < MaxSubs
            /\ SameCell(held.conversation, TRUE,
                        loc[i].conversation, AppendsNext(i), ReadsNext(i)))
    /\ \A i, j \in Subs :
          i # j => ~SameCell(loc[i].conversation, AppendsNext(i),
                             loc[j].conversation, AppendsNext(j), ReadsNext(j))



-----------------------------------------------------------------------------
(* The fragment channel and its consumer *)

\* the commands that wait, or are about to wait, on the channel of submission c
ConsumerOf(c) ==
    CopiesIn(c, waiting) + (IF upd.st = "ret" /\ upd.sub = c THEN 1 ELSE 0)

\* No command receives from the channel of submission c any more: none waits on
\* it, and the model the runtime holds does not name it, so that no later
\* command is bound to it.
ConsumerGone(c) ==
    /\ chans[c].made
    /\ ConsumerOf(c) = 0
    /\ held.streamingChan # c

\* C12: what the consumer has received from the channel of a submission,
\* followed by what the channel still buffers, is what the producer has sent,
\* in that order; and no fragment is dropped: a buffered fragment always has a
\* command that will receive it.
C12_FragmentsInOrderNoneDropped ==
    \A c \in Subs :
        /\ hist[c].enq = hist[c].rcv \o chans[c].buf
        /\ chans[c].buf # <<>> => ~ConsumerGone(c)



\* the text of a turn: its text blocks, concatenated
TextOf(turn) ==
    Concat([k \in 1..Len(SelectSeq(turn.content, LAMBDA b : b.type = "text")) |->
               SelectSeq(turn.content, LAMBDA b : b.type = "text")[k].text])

\* the text the streaming callback of model call k has delivered to the consumer
DeliveredText(c, k) ==
    LET frags == SelectSeq(hist[c].rcv,
                           LAMBDA f : f.call = k /\ f.kind = "delta")
    IN Concat([n \in 1..Len(frags) |-> frags[n].text])

IsPrefix(s, t) == Len(s) <= Len(t) /\ s = SubSeq(t, 1, Len(s))

\* nothing more of model call k of submission c is delivered: the channel is
\* closed and drained, or no command receives from it any more
DeliveryOver(c) ==
    \/ chans[c].closed /\ chans[c].buf = <<>>
    \/ ConsumerGone(c)

\* C13: for each model response whose message the loop has appended, the text
\* fragments of that response delivered to the consumer are, concatenated in
\* the order of delivery, a prefix of the message's text, and all of it once
\* delivery is over.
C13_DeliveredTextIsMessageText ==
    \A c \in Subs :
        LET turns == ModelTurns(hist[c].appended)
        IN \A k \in 1..Len(turns) :
              /\ IsPrefix(DeliveredText(c, k), TextOf(turns[k]))
              /\ DeliveryOver(c) => DeliveredText(c, k) = TextOf(turns[k])



\* C14: the channel of a submission is closed when its loop has ended, after
\* the last fragment was sent; the close is observed as streamingCompleteMsg at
\* most once, only after every fragment sent has been received; and while it
\* has not been observed a command is there to observe it.
C14_ClosedAndObservedOnce ==
    \A c \in Subs :
        /\ chans[c].closed => g[c].pc = "done"
        /\ hist[c].ends <= 1
        /\ hist[c].ends >= 1 =>
              /\ chans[c].closed
              /\ hist[c].rcv = hist[c].enq
        /\ (chans[c].closed /\ hist[c].ends = 0) => ~ConsumerGone(c)



\* the goroutine of submission c is in a send on its channel (chat.go:129,
\* 133, 148)
SendsNext(c) ==
    \/ g[c].pc = "tools"
    \/ g[c].pc = "stream" /\ (g[c].sent < Len(g[c].resp.deltas) \/ g[c].resp.err)

\* C15: when no command receives from the channel of a submission any more,
\* its goroutine does not stay blocked in a send on the full channel: the
\* model call and the loop are cancelled.
C15_ProducerNotBlockedForever ==
    \A c \in Subs :
        ~(/\ ConsumerGone(c)
          /\ SendsNext(c)
          /\ Len(chans[c].buf) = ChanCap)



-----------------------------------------------------------------------------
(* What follows a model turn *)

\* the model turns among the first k turns
ModelTurnsUpTo(turns, k) == Len(ModelTurns(SubSeq(turns, 1, k)))

\* C16: of the turns a submission's loop has appended, a model turn without
\* tool invocations is the last: the loop is over, and the model calls issued
\* are those that returned the model turns.  A model turn with tool invocations
\* is followed by exactly one tool-result turn (while the invocations are
\* dispatched it is still to come), and that by nothing but the turn of one
\* further model call: the call is the loop's next step, or is in flight, or
\* has failed.
C16_AfterModelTurn ==
    \A i \in Subs :
        LET a == hist[i].appended
            n == Len(a)
        IN \A k \in 1..n :
              /\ (IsModelTurn(a[k]) /\ ~IsToolTurn(a[k])) =>
                    /\ k = n
                    /\ g[i].pc = "done"
                    /\ hist[i].calls = ModelTurnsUpTo(a, k)
              /\ IsToolTurn(a[k]) =>
                    /\ k = n => /\ g[i].pc = "tools"
                                /\ hist[i].calls = ModelTurnsUpTo(a, k)
                    /\ k < n => IsResultTurn(a[k + 1])
                    /\ k + 1 = n =>
                          \/ /\ g[i].pc = "call" /\ g[i].hasToolCalls
                             /\ hist[i].calls = ModelTurnsUpTo(a, k)
                          \/ /\ g[i].pc = "stream"
                             /\ hist[i].calls = ModelTurnsUpTo(a, k) + 1
                          \/ /\ g[i].pc = "done" /\ hist[i].failed
                             /\ hist[i].calls = ModelTurnsUpTo(a, k) + 1
                    /\ k + 2 <= n => IsModelTurn(a[k + 2])

\* C16 witness: a submission appended a turn with tool invocations, one result
\* turn, and the final turn of the one further call; then its loop was over
C16_Witness ==
    \E i \in Subs :
        LET a == hist[i].appended
        IN /\ Len(a) = 4
           /\ IsToolTurn(a[2]) /\ IsResultTurn(a[3])
           /\ IsModelTurn(a[4]) /\ ~IsToolTurn(a[4])
           /\ g[i].pc = "done" /\ hist[i].calls = 2



-----------------------------------------------------------------------------
(* The edit tool: tools.EditFile.  A string is the sequence of its characters. *)

\* Bounds of the edit model: the length of the file, of old_str
MaxLen == 4
MaxOld == 2

\* the line separator "\n"
NL == "\n"

\* the characters a file and old_str are made of
Chars == {"a", NL}

\* the strings over chars of length up to n
TextsUpTo(chars, n) == UNION { [1..k -> chars] : k \in 0..n }

HasPrefix(s, prefix) ==
    Len(prefix) <= Len(s) /\ SubSeq(s, 1, Len(prefix)) = prefix

\* strings.Contains(s, substr)
Contains(s, substr) ==
    \E i \in 0..(Len(s) - Len(substr)) : SubSeq(s, i + 1, i + Len(substr)) = substr

RECURSIVE Count(_, _)
\* strings.Count(s, substr): the non-overlapping instances, from the left
Count(s, substr) ==
    IF substr = <<>> THEN Len(s) + 1
    ELSE IF Len(s) < Len(substr) THEN 0
    ELSE IF HasPrefix(s, substr)
         THEN 1 + Count(SubSeq(s, Len(substr) + 1, Len(s)), substr)
         ELSE Count(Tail(s), substr)

RECURSIVE Replace(_, _, _)
\* strings.Replace(s, old, new, -1), old not empty: every non-overlapping
\* instance, from the left
Replace(s, old, new) ==
    IF Len(s) < Len(old) THEN s
    ELSE IF HasPrefix(s, old)
         THEN new \o Replace(SubSeq(s, Len(old) + 1, Len(s)), old, new)
         ELSE <<Head(s)>> \o Replace(Tail(s), old, new)

RECURSIVE SplitNoLastEmpty(_)
\* faulty variant of Split: an empty segment after the last separator is no line
SplitNoLastEmpty(s) ==
    IF \E i \in 1..Len(s) : s[i] = NL
    THEN LET i == CHOOSE j \in 1..Len(s) :
                     s[j] = NL /\ \A l \in 1..(j - 1) : s[l] # NL
         IN IF i = Len(s) THEN <<SubSeq(s, 1, i - 1)>>
            ELSE <<SubSeq(s, 1, i - 1)>> \o SplitNoLastEmpty(SubSeq(s, i + 1, Len(s)))
    ELSE <<s>>

RECURSIVE Split(_)
\* strings.Split(s, "\n")
Split(s) ==
    IF \E i \in 1..Len(s) : s[i] = NL
    THEN LET i == CHOOSE j \in 1..Len(s) :
                     s[j] = NL /\ \A l \in 1..(j - 1) : s[l] # NL
         IN <<SubSeq(s, 1, i - 1)>> \o Split(SubSeq(s, i + 1, Len(s)))
    ELSE <<s>>

RECURSIVE JoinNoSeparator(_)
\* faulty variant of Join: the lines are put together without the separator
JoinNoSeparator(lines) ==
    IF lines = <<>> THEN <<>>
    ELSE lines[1] \o JoinNoSeparator(Tail(lines))

RECURSIVE Join(_)
\* strings.Join(lines, "\n")
Join(lines) ==
    IF lines = <<>> THEN <<>>
    ELSE IF Len(lines) = 1 THEN lines[1]
    ELSE lines[1] \o <<NL>> \o Join(Tail(lines))



\* faulty variant of FindLine: the search stops at the first matching line
FindLineFirstOnly(lines, oldStr) ==
    LET matching == { k \in 1..Len(lines) : Contains(lines[k], oldStr) }
    IN [matchCount |-> IF matching = {} THEN 0 ELSE 1,
        targetLine |-> IF matching = {} THEN -1
                       ELSE (CHOOSE k \in matching : \A j \in matching : k <= j) - 1]

\* the search loop over the lines: how many lines contain oldStr, and the
\* (0-based) index of the last of them
FindLine(lines, oldStr) ==
    LET matching == { k \in 1..Len(lines) : Contains(lines[k], oldStr) }
    IN [matchCount |-> Cardinality(matching),
        targetLine |-> IF matching = {} THEN -1
                       ELSE (CHOOSE k \in matching : \A j \in matching : j <= k) - 1]

\* faulty variant of TargetLine: line_number is taken as counted from 0
TargetLineZeroBased(in, lines) ==
    IF in.has_line
    THEN IF in.line_number < 0 \/ in.line_number > Len(lines) - 1
         THEN [err |-> "line_number is out of range", targetLine |-> -1]
         ELSE [err |-> "", targetLine |-> in.line_number]
    ELSE IF in.old_str = <<>>
         THEN [err |-> "either old_str or line_number is required", targetLine |-> -1]
         ELSE LET found == FindLine(lines, in.old_str)
              IN IF found.matchCount = 0
                 THEN [err |-> "old_str not found in file", targetLine |-> -1]
                 ELSE IF found.matchCount > 1
                 THEN [err |-> "old_str found in several lines", targetLine |-> -1]
                 ELSE [err |-> "", targetLine |-> found.targetLine]

\* faulty variant of TargetLine: with a line_number, an old_str that is given
\* must still be in that line
TargetLineChecksOldStr(in, lines) ==
    IF in.has_line
    THEN IF in.line_number < 1 \/ in.line_number > Len(lines)
         THEN [err |-> "line_number is out of range", targetLine |-> -1]
         ELSE IF in.old_str # <<>> /\ ~Contains(lines[in.line_number], in.old_str)
         THEN [err |-> "old_str not found in file", targetLine |-> -1]
         ELSE [err |-> "", targetLine |-> in.line_number - 1]
    ELSE TargetLineZeroBased(in, lines)

\* the target of insert_after, insert_before and delete_line: line_number if
\* it is given (1-based, within the lines), else the one line that contains
\* old_str; targetLine is 0-based
TargetLine(in, lines) ==
    IF in.has_line
    THEN IF in.line_number < 1 \/ in.line_number > Len(lines)
         THEN [err |-> "line_number is out of range", targetLine |-> -1]
         ELSE [err |-> "", targetLine |-> in.line_number - 1]
    ELSE IF in.old_str = <<>>
         THEN [err |-> "either old_str or line_number is required", targetLine |-> -1]
         ELSE LET found == FindLine(lines, in.old_str)
              IN IF found.matchCount = 0
                 THEN [err |-> "old_str not found in file", targetLine |-> -1]
                 ELSE IF found.matchCount > 1
                 THEN [err |-> "old_str found in several lines", targetLine |-> -1]
                 ELSE [err |-> "", targetLine |-> found.targetLine]

\* faulty variant of InsertAfter: the new line is appended to lines[:targetLine+1]
\* in place, over the line that follows
InsertAfterInPlace(lines, targetLine, newStr) ==
    SubSeq(lines, 1, targetLine + 1) \o <<newStr>>
        \o (IF targetLine + 1 < Len(lines)
            THEN <<newStr>> \o SubSeq(lines, targetLine + 3, Len(lines))
            ELSE <<>>)

\* case "insert_after": lines[:targetLine+1], NewStr, lines[targetLine+1:]
InsertAfter(lines, targetLine, newStr) ==
    SubSeq(lines, 1, targetLine + 1) \o <<newStr>>
        \o SubSeq(lines, targetLine + 2, Len(lines))

\* faulty variant of InsertBefore: NewStr goes after the target line
InsertBeforeBehind(lines, targetLine, newStr) ==
    SubSeq(lines, 1, targetLine + 1) \o <<newStr>>
        \o SubSeq(lines, targetLine + 2, Len(lines))

\* case "insert_before": lines[:targetLine], NewStr, lines[targetLine:]
InsertBefore(lines, targetLine, newStr) ==
    SubSeq(lines, 1, targetLine) \o <<newStr>>
        \o SubSeq(lines, targetLine + 1, Len(lines))

\* faulty variant of DeleteLine: the first line is removed, whatever the target
DeleteFirstLine(lines, targetLine) == Tail(lines)

\* case "delete_line": lines[:targetLine], lines[targetLine+1:]
DeleteLine(lines, targetLine) ==
    SubSeq(lines, 1, targetLine) \o SubSeq(lines, targetLine + 2, Len(lines))

\* faulty variant of validModes: delete_line is missing from the list
validModesNoDelete ==
    {"replace", "insert_after", "insert_before", "append", "prepend"}

validModes ==
    {"replace", "insert_after", "insert_before", "append", "prepend", "delete_line"}

\* What the file system answers to os.ReadFile and os.WriteFile.
\* "nowrite": WriteFile fails before it has truncated the file; "shortwrite": it
\* fails after the truncation, and the file is left empty.
EditIo == {"ok", "noread", "nowrite", "shortwrite"}

\* faulty variant of EditErr: the file has been opened for writing, and so
\* truncated, before the input is looked at
EditErrAfterOpen(text, content) ==
    [ok |-> FALSE, text |-> text, file |-> <<>>, writes |-> 1]

EditErr(text, content) == [ok |-> FALSE, text |-> text, file |-> content, writes |-> 0]

\* os.WriteFile(path, newContent, 0644) and the return that follows it
WriteFile(content, newContent, io, success) ==
    IF io = "nowrite"
    THEN [ok |-> FALSE, text |-> "failed to write file", file |-> content, writes |-> 1]
    ELSE IF io = "shortwrite"
    THEN [ok |-> FALSE, text |-> "failed to write file", file |-> <<>>, writes |-> 1]
    ELSE [ok |-> TRUE, text |-> success, file |-> newContent, writes |-> 1]

\* tools.EditFile on a file whose content is `content`: the result, the content
\* of the file afterwards and the number of calls of os.WriteFile
EditFileOn(content, in, io) ==
    IF ~in.decodable THEN EditErr("failed to parse input", content)
    ELSE IF in.path = "" THEN EditErr("path is required", content)
    ELSE IF in.mode = "" THEN EditErr("mode is required", content)
    ELSE IF in.mode \notin validModes THEN EditErr("invalid mode", content)
    ELSE IF io = "noread" THEN EditErr("failed to read file", content)
    ELSE
    LET lines == Split(content) IN
    CASE in.mode = "append" ->
           IF in.new_str = <<>>
           THEN EditErr("new_str is required", content)
           ELSE WriteFile(content, Join(Append(lines, in.new_str)), io,
                          "Successfully edited file")
      [] in.mode = "prepend" ->
           IF in.new_str = <<>>
           THEN EditErr("new_str is required", content)
           ELSE WriteFile(content, Join(<<in.new_str>> \o lines), io,
                          "Successfully edited file")
      [] in.mode = "replace" ->
           IF in.old_str = <<>> \/ in.new_str = <<>>
           THEN EditErr("both old_str and new_str are required", content)
           ELSE IF in.old_str = in.new_str
           THEN EditErr("old_str and new_str must be different", content)
           ELSE LET newContent == Replace(content, in.old_str, in.new_str)
                    occurrences == Count(content, in.old_str)
                IN IF occurrences = 0
                   THEN EditErr("old_str not found in file", content)
                   ELSE IF occurrences > 1
                   THEN EditErr("old_str found several times", content)
                   ELSE WriteFile(content, newContent, io,
                                  "Successfully replaced text in file")
      [] in.mode \in {"insert_after", "insert_before", "delete_line"} ->
           IF in.new_str = <<>> /\ in.mode # "delete_line"
           THEN EditErr("new_str is required", content)
           ELSE LET target == TargetLine(in, lines)
                    targetLine == target.targetLine
                    newLines ==
                        CASE in.mode = "insert_after" ->
                               InsertAfter(lines, targetLine, in.new_str)
                          [] in.mode = "insert_before" ->
                               InsertBefore(lines, targetLine, in.new_str)
                          [] in.mode = "delete_line" ->
                               DeleteLine(lines, targetLine)
                IN IF target.err # ""
                   THEN EditErr(target.err, content)
                   ELSE WriteFile(content, Join(newLines), io,
                                  "Successfully edited file")
      [] OTHER -> EditErr("unsupported mode", content)



\* The inputs of the model's edit calls: every mode, two strings that are no
\* mode, every old_str over Chars up to MaxOld, a new_str that is absent, equal
\* to an old_str, one line or two, and line_number absent or from 0 to beyond
\* the last line.
ModeValues ==
    {"replace", "insert_after", "insert_before", "append", "prepend", "delete_line",
     "", "rename"}
OldTexts == TextsUpTo(Chars, MaxOld)
NewTexts == {<<>>, <<"a">>, <<"b">>, <<"b", NL, "b">>}
LineNumbers == 0..(MaxLen + 2)

EditInputs ==
    { [decodable |-> TRUE, path |-> "f", mode |-> m, old_str |-> o, new_str |-> n,
       has_line |-> h, line_number |-> l] :
         m \in ModeValues, o \in OldTexts, n \in NewTexts,
         h \in BOOLEAN, l \in LineNumbers }

\* an input that is no JSON object of the schema, and one without a path
FaultyEditInputs ==
    { [NoEdit.in EXCEPT !.decodable = FALSE],
      [NoEdit.in EXCEPT !.mode = "replace"] }

\* *LineNumber is read only when the pointer is not nil
WellFormed(in) == in.has_line \/ in.line_number = 0

InitEdit ==
    /\ callFirst = FALSE
    /\ held = InitialChatModel
    /\ upd = [st |-> "idle", sub |-> 0, m |-> InitialChatModel]
    /\ heap = <<>>
    /\ loc = [i \in Subs |-> [conversation |-> EmptySlice, streamingChan |-> NoChan]]
    /\ g = [i \in Subs |-> IdleGoroutine]
    /\ chans = [i \in Subs |-> [buf |-> <<>>, closed |-> FALSE, made |-> FALSE]]
    /\ waiting = EmptyBag
    /\ nsubs = 0
    /\ hist = [i \in Subs |-> NoHist]
    /\ cli = NoCli
    /\ \E content \in TextsUpTo(Chars, MaxLen) :
          ed = [NoEdit EXCEPT !.pc = "ready", !.file = content, !.before = content]
    /\ ls = NoList
    /\ rf = NoRead

\* one call of tools.EditFile on the file
EditFileCall ==
    /\ ed.pc = "ready"
    /\ \E in \in EditInputs \cup FaultyEditInputs, io \in EditIo :
          /\ WellFormed(in)
          /\ LET res == EditFileOn(ed.file, in, io)
             IN ed' = [ed EXCEPT !.pc = "done", !.in = in, !.io = io,
                                 !.res = res, !.file = res.file]
    /\ UNCHANGED <<chatVars, cli, ls, rf>>

NextEdit == EditFileCall

SpecEdit == InitEdit /\ [][NextEdit]_vars

\* the call of the state: tools.EditFile has returned
Edited(mode) == ed.pc = "done" /\ ed.in.mode = mode

\* the file was read, and WriteFile, if it was called, succeeded
IoOk == ed.io = "ok"



(***************************************************************************)
(* replace                                                                 *)
(***************************************************************************)

\* the places (0-based offsets) where substr occurs in s
OccurrencesAt(s, substr) ==
    { i \in 0..(Len(s) - Len(substr)) : SubSeq(s, i + 1, i + Len(substr)) = substr }

\* s with the Len(old) characters at offset i replaced by new
ReplacedAt(s, i, old, new) ==
    SubSeq(s, 1, i) \o new \o SubSeq(s, i + Len(old) + 1, Len(s))

\* C17: in mode replace with non-empty, different old_str and new_str, if
\* old_str occurs exactly once as a substring of the content, the written
\* content is the original with that occurrence replaced by new_str and all
\* else identical; if it occurs zero times or two or more times, an error is
\* returned and the content is unchanged.
C17_ReplaceExactlyOnce ==
    (/\ Edited("replace") /\ IoOk /\ ed.in.path # ""
     /\ ed.in.old_str # <<>> /\ ed.in.new_str # <<>>
     /\ ed.in.old_str # ed.in.new_str)
    => LET occ == OccurrencesAt(ed.before, ed.in.old_str)
       IN /\ Cardinality(occ) = 1 =>
                /\ ed.res.ok
                /\ \A i \in occ :
                      ed.file = ReplacedAt(ed.before, i, ed.in.old_str, ed.in.new_str)
          /\ Cardinality(occ) # 1 =>
                /\ ~ed.res.ok
                /\ ed.res.writes = 0
                /\ ed.file = ed.before



(***************************************************************************)
(* insert_after, insert_before, delete_line                                *)
(***************************************************************************)

LineModes == {"insert_after", "insert_before", "delete_line"}

\* the (1-based) numbers of the lines that contain oldStr
MatchingLines(lines, oldStr) ==
    { k \in 1..Len(lines) : Contains(lines[k], oldStr) }

\* a call in one of the line modes that leaves the target to old_str
BySubstring ==
    /\ ed.pc = "done" /\ ed.in.decodable /\ ed.in.path # ""
    /\ ed.in.mode \in LineModes /\ ~ed.in.has_line

\* C18: in the modes insert_after, insert_before and delete_line without
\* line_number the edit is applied only if exactly one line of the content
\* contains old_str; if no line or more than one line contains it, an error is
\* returned and the file is not written.
C18_OneMatchingLineOrError ==
    BySubstring =>
        LET matching == MatchingLines(Split(ed.before), ed.in.old_str)
        IN /\ ed.res.writes > 0 => Cardinality(matching) = 1
           /\ Cardinality(matching) # 1 =>
                 /\ ~ed.res.ok
                 /\ ed.res.writes = 0
                 /\ ed.file = ed.before

\* C18's case: two lines contain old_str, the file system answers, new_str is
\* there, and the call is refused
C18_Witness ==
    /\ BySubstring /\ IoOk
    /\ ed.in.mode = "insert_after" /\ ed.in.new_str = <<"b">>
    /\ ed.in.old_str = <<"a">>
    /\ ed.before = <<"a", NL, "a", "a">>
    /\ ~ed.res.ok /\ ed.file = ed.before



\* the call of the state with its target given as line_number k instead
ByLineNumber(k, oldStr) ==
    EditFileOn(ed.before,
               [ed.in EXCEPT !.has_line = TRUE, !.line_number = k, !.old_str = oldStr],
               ed.io)

\* C19: for insert_after, insert_before and delete_line and every content, an
\* instruction that selects line k by line_number and one that selects the
\* same line k through an old_str contained in line k and in no other line
\* produce the same content (and the same result).
C19_LineNumberAndSubstringAgree ==
    (BySubstring /\ ed.in.old_str # <<>>) =>
        LET lines == Split(ed.before)
        IN \A k \in 1..Len(lines) :
              MatchingLines(lines, ed.in.old_str) = {k} =>
                  \A oldStr \in OldTexts :
                      /\ ByLineNumber(k, oldStr).file = ed.file
                      /\ ByLineNumber(k, oldStr) = ed.res

\* C19's case: old_str selects the second of three lines, and the insertion
\* is made before it
C19_Witness ==
    /\ BySubstring /\ IoOk /\ ed.res.ok
    /\ ed.in.mode = "insert_before" /\ ed.in.new_str = <<"b">>
    /\ ed.in.old_str = <<"a">>
    /\ ed.before = <<NL, "a", NL>>
    /\ ed.file = <<NL, "b", NL, "a", NL>>
    /\ ByLineNumber(2, <<>>).file = ed.file



\* a call of insert_after or insert_before that was applied
Inserted ==
    /\ ed.pc = "done" /\ ed.res.ok
    /\ ed.in.mode \in {"insert_after", "insert_before"}

\* the (1-based) line an applied call was aimed at
TargetOf ==
    IF ed.in.has_line THEN ed.in.line_number
    ELSE CHOOSE k \in MatchingLines(Split(ed.before), ed.in.old_str) : TRUE

\* the number of original lines in front of the inserted text
KeptInFront == IF ed.in.mode = "insert_after" THEN TargetOf ELSE TargetOf - 1

\* C20 as stated: insert_after (insert_before) with target line k produces a
\* content whose lines are the original lines 1..k (1..k-1), then new_str as
\* one new line, then the original lines k+1..n (k..n); the line count grows
\* by exactly one.
C20_OneNewLine ==
    Inserted =>
        LET lines == Split(ed.before)
        IN /\ Split(ed.file) = SubSeq(lines, 1, KeptInFront) \o <<ed.in.new_str>>
                                  \o SubSeq(lines, KeptInFront + 1, Len(lines))
           /\ Len(Split(ed.file)) = Len(lines) + 1

\* C20, amended: the content's lines are the original lines 1..k (1..k-1), then
\* the lines of new_str, then the original lines k+1..n (k..n); the line count
\* grows by the number of lines of new_str, which is one when new_str holds no
\* line separator, and every original line is kept, in its order.
C20_NewTextSpliced ==
    Inserted =>
        LET lines == Split(ed.before)
            new == Split(ed.in.new_str)
        IN /\ Split(ed.file) = SubSeq(lines, 1, KeptInFront) \o new
                                  \o SubSeq(lines, KeptInFront + 1, Len(lines))
           /\ Len(Split(ed.file)) = Len(lines) + Len(new)
           /\ Count(ed.in.new_str, <<NL>>) = 0 => Len(Split(ed.file)) = Len(lines) + 1

\* C20's case: a new_str of two lines is inserted after the first of two lines
C20_Witness ==
    /\ Inserted /\ ed.in.mode = "insert_after"
    /\ ed.in.has_line /\ ed.in.line_number = 1
    /\ ed.before = <<"a", NL, "a">>
    /\ ed.in.new_str = <<"b", NL, "b">>
    /\ ed.file = <<"a", NL, "b", NL, "b", NL, "a">>
    /\ Len(Split(ed.file)) = 4



(***************************************************************************)
(* append, prepend                                                         *)
(***************************************************************************)

\* a call of append or prepend that was applied
Added == ed.pc = "done" /\ ed.res.ok /\ ed.in.mode \in {"append", "prepend"}

\* the call of the state with another old_str and another line_number
WithTarget(oldStr, hasLine, n) ==
    EditFileOn(ed.before,
               [ed.in EXCEPT !.old_str = oldStr, !.has_line = hasLine,
                             !.line_number = n],
               ed.io)

\* C21 as stated: append yields the original lines followed by new_str as the
\* last line, prepend yields new_str as the first line followed by the
\* original lines; old_str and line_number are ignored.
C21_OneLineAdded ==
    Added =>
        /\ ed.in.mode = "append" =>
              Split(ed.file) = Split(ed.before) \o <<ed.in.new_str>>
        /\ ed.in.mode = "prepend" =>
              Split(ed.file) = <<ed.in.new_str>> \o Split(ed.before)

\* C21, amended: append yields the original lines followed by the lines of
\* new_str, prepend the lines of new_str followed by the original lines,
\* joined by the separator, so the content is the original, a separator and
\* new_str (new_str, a separator and the original); no match search is made:
\* old_str and line_number are ignored.
C21_NewTextAdded ==
    (ed.pc = "done" /\ ed.in.mode \in {"append", "prepend"}) =>
        /\ (ed.res.ok /\ ed.in.mode = "append") =>
              /\ ed.file = ed.before \o <<NL>> \o ed.in.new_str
              /\ Split(ed.file) = Split(ed.before) \o Split(ed.in.new_str)
        /\ (ed.res.ok /\ ed.in.mode = "prepend") =>
              /\ ed.file = ed.in.new_str \o <<NL>> \o ed.before
              /\ Split(ed.file) = Split(ed.in.new_str) \o Split(ed.before)
        /\ (IoOk /\ ed.in.decodable /\ ed.in.path # "" /\ ed.in.new_str # <<>>)
              => ed.res.ok
        /\ \A oldStr \in OldTexts, n \in LineNumbers :
              /\ WithTarget(oldStr, TRUE, n) = ed.res
              /\ WithTarget(oldStr, FALSE, 0) = ed.res

\* C21's case: "b" is appended to a file of two lines, in a call that names an
\* old_str no line contains and a line_number out of range
C21_Witness ==
    /\ Added /\ ed.in.mode = "append"
    /\ ed.before = <<"a", NL, "a">> /\ ed.in.new_str = <<"b">>
    /\ ed.in.old_str = <<NL, NL>> /\ ed.in.has_line /\ ed.in.line_number = 0
    /\ ed.file = <<"a", NL, "a", NL, "b">>
    /\ Split(ed.file) = << <<"a">>, <<"a">>, <<"b">> >>



(***************************************************************************)
(* delete_line                                                             *)
(***************************************************************************)

\* a call of delete_line that was applied
Deleted == ed.pc = "done" /\ ed.res.ok /\ ed.in.mode = "delete_line"

\* the original lines without line k
Without(lines, k) == SubSeq(lines, 1, k - 1) \o SubSeq(lines, k + 1, Len(lines))

\* the call of the state with another new_str
WithNewStr(newStr) ==
    EditFileOn(ed.before, [ed.in EXCEPT !.new_str = newStr], ed.io)

\* C22 as stated: delete_line with a uniquely resolved target line k removes
\* exactly line k: the output is the original lines without line k, the line
\* count is reduced by exactly one; new_str is not required.
C22_LineCountReduced ==
    Deleted =>
        LET lines == Split(ed.before)
        IN /\ Split(ed.file) = Without(lines, TargetOf)
           /\ Len(Split(ed.file)) = Len(lines) - 1

\* C22, amended: the output is the original lines without line k, joined by the
\* separator; the line count is reduced by exactly one when the content has
\* more than one line, and the output is the empty content (which counts as
\* one empty line) when line k was the only line; new_str is not required.
C22_LineRemoved ==
    (ed.pc = "done" /\ ed.in.mode = "delete_line") =>
        /\ ed.res.ok =>
              LET lines == Split(ed.before)
              IN /\ ed.file = Join(Without(lines, TargetOf))
                 /\ Len(lines) > 1 =>
                        /\ Split(ed.file) = Without(lines, TargetOf)
                        /\ Len(Split(ed.file)) = Len(lines) - 1
                 /\ Len(lines) = 1 => ed.file = <<>>
        /\ \A newStr \in NewTexts : WithNewStr(newStr) = ed.res

\* C22's case: the first of three lines is the only one that contains old_str
\* and is removed, without a new_str
C22_Witness ==
    /\ Deleted /\ ~ed.in.has_line /\ ed.in.new_str = <<>>
    /\ ed.in.old_str = <<"a">>
    /\ ed.before = <<"a", NL, NL>>
    /\ ed.file = <<NL>>
    /\ Len(Split(ed.file)) = 2



(***************************************************************************)
(* line_number                                                             *)
(***************************************************************************)

\* the number of newline-separated segments of a content
LineCount(content) ==
    Cardinality({ i \in 1..Len(content) : content[i] = NL }) + 1

\* a call in one of the line modes with a line_number, its texts as the mode
\* requires them, on a file that could be read
ByNumber ==
    /\ ed.pc = "done" /\ ed.in.decodable /\ ed.in.path # ""
    /\ ed.in.mode \in LineModes /\ ed.in.has_line
    /\ (ed.in.new_str # <<>> \/ ed.in.mode = "delete_line")
    /\ ed.io # "noread"

\* C23: in the line modes a line_number n is accepted exactly when
\* 1 <= n <= lineCount, the number of newline-separated segments of the
\* content; any other n returns an out-of-range error and the file is not
\* written.
C23_LineNumberRange ==
    ByNumber =>
        LET n == ed.in.line_number
        IN /\ (1 <= n /\ n <= LineCount(ed.before)) =>
                 /\ ed.res.text # "line_number is out of range"
                 /\ ed.res.writes = 1
                 /\ IoOk => ed.res.ok
           /\ (n < 1 \/ n > LineCount(ed.before)) =>
                 /\ ~ed.res.ok
                 /\ ed.res.text = "line_number is out of range"
                 /\ ed.res.writes = 0
                 /\ ed.file = ed.before

\* C23's case: the file ends in a separator, and line_number names the empty
\* segment after it
C23_Witness ==
    /\ ByNumber /\ IoOk /\ ed.res.ok
    /\ ed.in.mode = "insert_after" /\ ed.in.new_str = <<"b">>
    /\ ed.before = <<"a", NL>> /\ ed.in.line_number = 2
    /\ ed.file = <<"a", NL, NL, "b">>



(***************************************************************************)
(* Errors and writes                                                       *)
(***************************************************************************)

\* the errors EditFile returns for what is wrong with the instruction or with
\* the content: missing path or mode, invalid mode, missing text, old_str not
\* found, ambiguous match, line number out of range
InstructionErrors ==
    {"path is required", "mode is required", "invalid mode",
     "new_str is required", "both old_str and new_str are required",
     "old_str and new_str must be different",
     "either old_str or line_number is required",
     "old_str not found in file", "old_str found several times",
     "old_str found in several lines", "line_number is out of range"}

\* C24: every call of the edit tool either returns an error having written
\* nothing (the content is unchanged) or writes exactly once, the complete
\* new content; every error about the instruction is of the first kind, and
\* the only error after a write is the failure of that write.
C24_ErrorOrOneWrite ==
    ed.pc = "done" =>
        /\ ed.res.writes \in {0, 1}
        /\ ed.res.writes = 0 => (~ed.res.ok /\ ed.file = ed.before)
        /\ ed.res.ok => (ed.res.writes = 1 /\ ed.file = ed.res.file)
        /\ ~ed.res.ok =>
              \/ /\ ed.res.writes = 0
                 /\ ed.res.text \in InstructionErrors
                       \cup {"failed to parse input", "failed to read file"}
              \/ /\ ed.res.writes = 1
                 /\ ed.res.text = "failed to write file"
                 /\ ed.io \in {"nowrite", "shortwrite"}
        /\ ed.res.text \in InstructionErrors =>
              (~ed.res.ok /\ ed.res.writes = 0 /\ ed.file = ed.before)

\* C24's case: old_str is in two lines, the call is refused and nothing is
\* written, though the file system would have failed the write
C24_Witness ==
    /\ Edited("replace") /\ ed.io = "shortwrite"
    /\ ed.before = <<"a", NL, "a">>
    /\ ed.in.old_str = <<"a">> /\ ed.in.new_str = <<"b">>
    /\ ed.res.text = "old_str found several times"
    /\ ed.res.writes = 0 /\ ed.file = ed.before



(***************************************************************************)
(* Required fields                                                         *)
(***************************************************************************)

\* a call whose input was decoded and names a path
Decoded == ed.pc = "done" /\ ed.in.decodable /\ ed.in.path # ""

Refused == ~ed.res.ok /\ ed.res.writes = 0 /\ ed.file = ed.before

\* the target of the call resolves to one line of the content
Resolves ==
    IF ed.in.has_line
    THEN 1 <= ed.in.line_number /\ ed.in.line_number <= LineCount(ed.before)
    ELSE /\ ed.in.old_str # <<>>
         /\ Cardinality(MatchingLines(Split(ed.before), ed.in.old_str)) = 1

\* C25: replace returns an error unless old_str and new_str are both non-empty
\* and different; insert_after, insert_before, append and prepend return an
\* error when new_str is empty; delete_line accepts an empty new_str; a mode
\* outside the six modes returns an error.
C25_RequiredFields ==
    Decoded =>
        /\ (/\ ed.in.mode = "replace"
            /\ (\/ ed.in.old_str = <<>> \/ ed.in.new_str = <<>>
                \/ ed.in.old_str = ed.in.new_str))
              => Refused
        /\ (/\ ed.in.mode \in {"insert_after", "insert_before", "append", "prepend"}
            /\ ed.in.new_str = <<>>)
              => Refused
        /\ (/\ ed.in.mode = "delete_line" /\ ed.in.new_str = <<>>
            /\ IoOk /\ Resolves)
              => ed.res.ok
        /\ ed.in.mode \notin {"replace", "insert_after", "insert_before",
                              "append", "prepend", "delete_line"}
              => Refused

\* C25's case: a replace whose old_str and new_str are the same text, on a
\* content that holds it once
C25_Witness ==
    /\ Decoded /\ IoOk /\ ed.in.mode = "replace"
    /\ ed.in.old_str = <<"a">> /\ ed.in.new_str = <<"a">>
    /\ ed.before = <<"a", NL>>
    /\ Refused /\ ed.res.text = "old_str and new_str must be different"



-----------------------------------------------------------------------------
(* The tool registry *)

\* the names a model may ask for
ToolNames == {"read_file", "list_files", "edit_file", "does_not_exist"}

\* the names ExecuteTool resolves in a registry: those it does not answer
\* with "tool not found"
Resolvable(tools) ==
    { name \in ToolNames :
        ExecuteTool(tools, "t", name, GoodPath, "ok").called # "none" }

Range(f) == { f[k] : k \in DOMAIN f }

\* an agent that is given tools.GetAllTools()
OnRegistry == cli.prog = "agent"



\* C26: the registry is fixed at startup and never changed: in a session the
\* names sent with every model call are the same, they are the names the
\* dispatcher resolves (read_file, list_files, edit_file for the registry of
\* package tools), and each name is there once.
C26_RegistryFixed ==
    cli.prog # "none" =>
        /\ cli.tools = CliTools(cli.prog)
        /\ Cardinality(cli.advertised) <= 1
        /\ cli.calls > 0 => cli.advertised # {}
        /\ \A sent \in cli.advertised :
              /\ Range(sent) = Resolvable(cli.tools)
              /\ \A j, k \in 1..Len(sent) : sent[j] = sent[k] => j = k
        /\ OnRegistry =>
              Resolvable(cli.tools) = {"read_file", "list_files", "edit_file"}

\* C26's case: the agent on the registry has called the model three times,
\* and has executed a tool of the registry and been asked for one that is not
\* in it
C26_Witness ==
    /\ OnRegistry /\ cli.calls = 3
    /\ cli.advertised = { <<"read_file", "list_files", "edit_file">> }
    /\ \E k \in 1..Len(cli.executed) : cli.executed[k].called = "tools.ReadFile"
    /\ \E k \in 1..Len(cli.executed) : cli.executed[k].called = "none"



-----------------------------------------------------------------------------
(* The list tool: tools.ListFiles.  A directory is the set of the entries  *)
(* below it; depth is the number of separators in the relative path.       *)

\* Bound of the list model: the largest max_depth of a call
MaxDepthArg == 3

\* the entries a directory of the model may hold, in the lexical order in
\* which os.ReadDir and filepath.Walk visit them
Universe ==
    << [path |-> "d/",    depth |-> 0, isDir |-> TRUE,  parent |-> ""],
       [path |-> "d/e/",  depth |-> 1, isDir |-> TRUE,  parent |-> "d/"],
       [path |-> "d/e/h", depth |-> 2, isDir |-> FALSE, parent |-> "d/e/"],
       [path |-> "d/g",   depth |-> 1, isDir |-> FALSE, parent |-> "d/"],
       [path |-> "f",     depth |-> 0, isDir |-> FALSE, parent |-> ""] >>

\* the directories: every entry lies in a directory that is there
Trees ==
    { t \in SUBSET Range(Universe) :
        \A e \in t : e.parent = "" \/ \E d \in t : d.isDir /\ d.path = e.parent }

\* the paths of a sequence of entries
Paths(entries) == [k \in 1..Len(entries) |-> entries[k].path]

\* os.ReadDir(dir): the entries of the directory itself, sorted by name
ReadDir(tree) ==
    Paths(SelectSeq(Universe, LAMBDA e : e \in tree /\ e.depth = 0))

\* filepath.Walk(dir, ...): every entry below dir in lexical order; with
\* maxDepth >= 0 what lies deeper is skipped
Walk(tree, maxDepth) ==
    Paths(SelectSeq(Universe,
                    LAMBDA e : e \in tree /\ (maxDepth < 0 \/ e.depth <= maxDepth)))

\* json.Unmarshal into ListFilesInput: a bool field that is absent is false
DecodedRecursive(in) == in.recursive = "true"

\* tools.ListFiles on the directory tree: recursive is true unless the decoded
\* field is false; the non-recursive listing is os.ReadDir, the recursive one
\* filepath.Walk, which leaves out what lies deeper than max_depth
ListFilesOn(tree, in, io) ==
    IF ~in.decodable THEN [ok |-> FALSE, files |-> <<>>]
    ELSE IF io = "fail" THEN [ok |-> FALSE, files |-> <<>>]
    ELSE LET recursive == IF ~DecodedRecursive(in) THEN FALSE ELSE TRUE
             maxDepth == IF in.has_depth THEN in.max_depth ELSE -1
         IN IF ~recursive
            THEN [ok |-> TRUE, files |-> ReadDir(tree)]
            ELSE [ok |-> TRUE, files |-> Walk(tree, maxDepth)]

ListInputs ==
    { [decodable |-> dec, recursive |-> r, has_depth |-> h, max_depth |-> d] :
        dec \in BOOLEAN, r \in {"absent", "true", "false"}, h \in BOOLEAN,
        d \in (-1)..MaxDepthArg }

InitList ==
    /\ callFirst = FALSE
    /\ held = InitialChatModel
    /\ upd = [st |-> "idle", sub |-> 0, m |-> InitialChatModel]
    /\ heap = <<>>
    /\ loc = [i \in Subs |-> [conversation |-> EmptySlice, streamingChan |-> NoChan]]
    /\ g = [i \in Subs |-> IdleGoroutine]
    /\ chans = [i \in Subs |-> [buf |-> <<>>, closed |-> FALSE, made |-> FALSE]]
    /\ waiting = EmptyBag
    /\ nsubs = 0
    /\ hist = [i \in Subs |-> NoHist]
    /\ cli = NoCli
    /\ ed = NoEdit
    /\ rf = NoRead
    /\ \E tree \in Trees : ls = [NoList EXCEPT !.pc = "ready", !.tree = tree]

\* one call of tools.ListFiles on the directory
ListFilesCall ==
    /\ ls.pc = "ready"
    /\ \E in \in ListInputs, io \in IoOutcomes :
          /\ in.has_depth \/ in.max_depth = 0
          /\ in.decodable \/ (in.recursive = "absent" /\ ~in.has_depth)
          /\ ls' = [ls EXCEPT !.pc = "done", !.in = in, !.io = io,
                              !.res = ListFilesOn(ls.tree, in, io)]
    /\ UNCHANGED <<chatVars, cli, ed, rf>>

NextList == ListFilesCall

SpecList == InitList /\ [][NextList]_vars

\* the call of the state with the recursive field as given
WithRecursive(r) == ListFilesOn(ls.tree, [ls.in EXCEPT !.recursive = r], ls.io)

\* C27: list_files lists recursively by default: when the input omits the
\* recursive field, the result holds the entries of all nested directories
\* (limited only by max_depth if given), the same as when recursive is true.
C27_RecursiveByDefault ==
    (ls.pc = "done" /\ ls.in.recursive = "absent") =>
        /\ ls.res = WithRecursive("true")
        /\ (ls.res.ok /\ ~ls.in.has_depth) =>
              Range(ls.res.files) = { e.path : e \in ls.tree }



\* what a line mode makes of lines when it is aimed at line k
Spliced(mode, lines, k, newStr) ==
    CASE mode = "insert_after" ->
           SubSeq(lines, 1, k) \o <<newStr>> \o SubSeq(lines, k + 1, Len(lines))
      [] mode = "insert_before" ->
           SubSeq(lines, 1, k - 1) \o <<newStr>> \o SubSeq(lines, k, Len(lines))
      [] mode = "delete_line" -> Without(lines, k)

\* C28: in the modes insert_after, insert_before and delete_line a line_number
\* that is present alone selects the target: old_str is not searched, and the
\* edit succeeds on line line_number even when old_str is empty, is in no
\* line, in several lines or in another line.
C28_LineNumberAloneSelects ==
    (ByNumber /\ IoOk /\ Resolves) =>
        /\ ed.res.ok
        /\ ed.file = Join(Spliced(ed.in.mode, Split(ed.before),
                                  ed.in.line_number, ed.in.new_str))
        /\ \A oldStr \in OldTexts : ByLineNumber(ed.in.line_number, oldStr) = ed.res

\* C28's case: old_str is in the first and the third line, line_number names
\* the second, and the second line is deleted
C28_Witness ==
    /\ ByNumber /\ IoOk /\ ed.res.ok /\ ed.in.mode = "delete_line"
    /\ ed.before = <<"a", NL, NL, "a">>
    /\ ed.in.old_str = <<"a">> /\ ed.in.line_number = 2
    /\ ed.file = <<"a", NL, "a">>



-----------------------------------------------------------------------------
(* The end of a submission in the chat view *)

\* the text of the fragments received from the channel of submission c, in the
\* order of their receipt
ReceivedText(c) == Concat([k \in 1..Len(hist[c].rcv) |-> hist[c].rcv[k].text])

\* the step handles the end-of-sequence signal of submission c
EndHandled(c) == hist'[c].ends = hist[c].ends + 1

\* C29: when the end-of-sequence signal of a submission is handled, the chat
\* view gains exactly one model message whose content is the concatenation, in
\* order, of all fragments received since that submission (none if no fragment
\* was received), the streaming flag is cleared, the channel reference is
\* dropped and the accumulator is reset to empty.
C29_EndOfStreamMessage ==
    [][\A c \in Subs :
          EndHandled(c) =>
              /\ held'.messages =
                    IF hist[c].rcv = <<>> THEN held.messages
                    ELSE Append(held.messages,
                                [Content |-> ReceivedText(c), IsUser |-> FALSE])
              /\ ~held'.isStreaming
              /\ held'.streamingChan = NoChan
              /\ held'.currentStreamingMessage = <<>>]_vars



-----------------------------------------------------------------------------
(* The read tool: tools.ReadFile with a line range *)

\* faulty variant of Slice: the line at index hi - 1 is left out
SliceExclusive(lines, lo, hi) == SubSeq(lines, lo + 1, hi - 1)

\* the Go slice lines[lo:hi]
Slice(lines, lo, hi) == SubSeq(lines, lo + 1, hi)

ReadErr(err) == [ok |-> FALSE, text |-> <<>>, err |-> err]

\* tools.ReadFile on a file whose content is `content`
ReadFileOn(content, in, io) ==
    IF ~in.decodable THEN ReadErr("failed to parse input")
    ELSE IF in.path = "" THEN ReadErr("path is required")
    ELSE IF io = "fail" THEN ReadErr("failed to read file")
    ELSE IF ~in.has_start /\ ~in.has_end
    THEN [ok |-> TRUE, text |-> content, err |-> ""]
    ELSE
    LET lines == Split(content)
        totalLines == Len(lines)
        startLine == IF in.has_start THEN in.start_line ELSE 1
        endLine == IF in.has_end THEN in.end_line ELSE totalLines
        startIdx == startLine - 1
        endIdx == IF endLine > totalLines THEN totalLines ELSE endLine
    IN IF in.has_start /\ in.start_line < 1
       THEN ReadErr("start_line must be >= 1")
       ELSE IF in.has_end /\ in.end_line < 1
       THEN ReadErr("end_line must be >= 1")
       ELSE IF startLine > endLine
       THEN ReadErr("start_line cannot be greater than end_line")
       ELSE IF startLine > totalLines
       THEN ReadErr("start_line exceeds total lines")
       ELSE [ok |-> TRUE, text |-> Join(Slice(lines, startIdx, endIdx)), err |-> ""]

\* the line numbers of the model's read calls: from below 1 to beyond the
\* last line
ReadLineNumbers == (-1)..(MaxLen + 2)

ReadInputs ==
    { [decodable |-> TRUE, path |-> "f", has_start |-> hs, start_line |-> s,
       has_end |-> he, end_line |-> e] :
         hs \in BOOLEAN, s \in ReadLineNumbers, he \in BOOLEAN, e \in ReadLineNumbers }
    \cup { [NoRead.in EXCEPT !.decodable = FALSE], NoRead.in }

InitRead ==
    /\ callFirst = FALSE
    /\ held = InitialChatModel
    /\ upd = [st |-> "idle", sub |-> 0, m |-> InitialChatModel]
    /\ heap = <<>>
    /\ loc = [i \in Subs |-> [conversation |-> EmptySlice, streamingChan |-> NoChan]]
    /\ g = [i \in Subs |-> IdleGoroutine]
    /\ chans = [i \in Subs |-> [buf |-> <<>>, closed |-> FALSE, made |-> FALSE]]
    /\ waiting = EmptyBag
    /\ nsubs = 0
    /\ hist = [i \in Subs |-> NoHist]
    /\ cli = NoCli
    /\ ed = NoEdit
    /\ ls = NoList
    /\ \E content \in TextsUpTo(Chars, MaxLen) :
          rf = [NoRead EXCEPT !.pc = "ready", !.file = content]

\* one call of tools.ReadFile on the file
ReadFileCall ==
    /\ rf.pc = "ready"
    /\ \E in \in ReadInputs, io \in IoOutcomes :
          /\ in.has_start \/ in.start_line = 0
          /\ in.has_end \/ in.end_line = 0
          /\ rf' = [rf EXCEPT !.pc = "done", !.in = in, !.io = io,
                              !.res = ReadFileOn(rf.file, in, io)]
    /\ UNCHANGED <<chatVars, cli, ed, ls>>

NextRead == ReadFileCall

SpecRead == InitRead /\ [][NextRead]_vars

\* a call that was decoded, names a path and could read the file
FileRead == rf.pc = "done" /\ rf.in.decodable /\ rf.in.path # "" /\ rf.io = "ok"

\* C30: read_file with a line range returns exactly the lines
\* start_line..min(end_line, totalLines), 1-based and inclusive, start_line
\* defaulting to 1 and end_line to totalLines, joined by newlines; it returns
\* an error and no content when start_line < 1, end_line < 1,
\* start_line > end_line or start_line > totalLines; with neither bound it
\* returns the whole content unchanged.
C30_LineRange ==
    FileRead =>
        LET total == LineCount(rf.file)
            first == IF rf.in.has_start THEN rf.in.start_line ELSE 1
            last == IF rf.in.has_end THEN rf.in.end_line ELSE total
            upTo == IF last < total THEN last ELSE total
            wrong == first < 1 \/ last < 1 \/ first > last \/ first > total
        IN IF ~rf.in.has_start /\ ~rf.in.has_end
           THEN rf.res.ok /\ rf.res.text = rf.file
           ELSE /\ wrong => (~rf.res.ok /\ rf.res.text = <<>>)
                /\ ~wrong =>
                      /\ rf.res.ok
                      /\ Split(rf.res.text) =
                            [k \in 1..(upTo - first + 1) |->
                                Split(rf.file)[first + k - 1]]

\* C30's case: lines 2 to 5 are asked of a file of three lines, and lines 2
\* and 3 are returned
C30_Witness ==
    /\ FileRead /\ rf.res.ok
    /\ rf.file = <<"a", NL, NL, "a">>
    /\ rf.in.has_start /\ rf.in.start_line = 2
    /\ rf.in.has_end /\ rf.in.end_line = 5
    /\ rf.res.text = <<NL, "a">>



-----------------------------------------------------------------------------
(* The edit tool: lines and occurrences *)

\* the call of the state made in mode replace, with a new_str that is there
\* and is not old_str
AsReplace ==
    EditFileOn(ed.before, [ed.in EXCEPT !.mode = "replace", !.new_str = <<"b">>],
               ed.io)

\* old_str is in one line only, and two or more times in that line
TwiceInOneLine ==
    LET lines == Split(ed.before)
    IN \E k \in 1..Len(lines) :
          /\ MatchingLines(lines, ed.in.old_str) = {k}
          /\ Cardinality(OccurrencesAt(lines[k], ed.in.old_str)) >= 2

\* C31: the search of the line modes counts lines, not occurrences: a content
\* in which old_str occurs two or more times in one line and in no other line
\* is a unique match for insert_after, insert_before and delete_line (the edit
\* is applied), while replace with the same old_str on the same content is
\* refused as ambiguous.
C31_LinesNotOccurrences ==
    (/\ BySubstring /\ IoOk /\ ed.in.old_str # <<>>
     /\ (ed.in.new_str # <<>> \/ ed.in.mode = "delete_line")
     /\ TwiceInOneLine)
    => /\ ed.res.ok
       /\ ed.res.writes = 1
       /\ ~AsReplace.ok
       /\ AsReplace.text = "old_str found several times"
       /\ AsReplace.file = ed.before

-----------------------------------------------------------------------------
(* The chat loop: the user turns of the transcript *)

C33_CallCarriesUserTurnLast ==
    \A i \in Subs :
        hist[i].calls > 0 =>
            /\ hist[i].carried # <<>>
            /\ LastTurn(hist[i].carried).role = "user"

-----------------------------------------------------------------------------
(* The edit tool: inserting a line and deleting it again *)

\* a successful insert_before or insert_after at a line_number
InsertedAt(mode) ==
    /\ ByNumber /\ IoOk
    /\ ed.in.mode = mode
    /\ ed.res.ok

\* delete_line with line_number k on the file the edit has left
ThenDeleteLine(k) ==
    EditFileOn(ed.res.file,
               [ed.in EXCEPT !.mode = "delete_line", !.has_line = TRUE,
                             !.line_number = k, !.old_str = <<>>, !.new_str = <<>>],
               "ok")

\* the file is as it was before the insertion
RoundTrip ==
    /\ InsertedAt("insert_before") =>
          /\ ThenDeleteLine(ed.in.line_number).ok
          /\ ThenDeleteLine(ed.in.line_number).file = ed.before
    /\ InsertedAt("insert_after") =>
          /\ ThenDeleteLine(ed.in.line_number + 1).ok
          /\ ThenDeleteLine(ed.in.line_number + 1).file = ed.before

\* C34 as stated: for any content and any valid line number k, insert_before at
\* line k followed by delete_line at line k, and insert_after at line k
\* followed by delete_line at line k + 1, leave the content of the file as it
\* was, trailing newline included.
C34_RoundTripAnyText == RoundTrip

\* C34: with a new_str that holds no line separator, insert_before at line k
\* followed by delete_line at line k, and insert_after at line k followed by
\* delete_line at line k + 1, leave the content of the file as it was, trailing
\* newline included.
C34_RoundTripOneLine == ~Contains(ed.in.new_str, <<NL>>) => RoundTrip

\* C34 witness: a line was inserted before the empty last segment of a file
\* that ends with a newline, and deleting it gives the file back
C34_Witness ==
    /\ InsertedAt("insert_before")
    /\ ~Contains(ed.in.new_str, <<NL>>)
    /\ Len(ed.before) > 1
    /\ ed.before[Len(ed.before)] = NL
    /\ ed.in.line_number = LineCount(ed.before)
    /\ ThenDeleteLine(ed.in.line_number).file = ed.before

=============================================================================
